---------------------------- MODULE Spec2Model ----------------------------
(***************************************************************************)
(* Transfer replica of a section (replicas.rs): the per-wallet locks, the  *)
(* per-wallet event logs, the shared signing collaborator and the handlers *)
(* genesis, initiate, validate, register, receive_propagated, the queries  *)
(* and update_replica_keys.                                                *)
(*                                                                         *)
(* Each handler is an async fn; a process runs one handler at a time and   *)
(* takes one step per suspension point that touches shared state:          *)
(*   Call    the entry, with load_key_lock (locks is never written)        *)
(*   Lock    key_lock.lock().await, load_wallet and the wallet's check     *)
(*   Sign    info.signing.lock().await and the share                       *)
(*   Insert  store.try_insert and the return, which drops the guards       *)
(*                                                                         *)
(* Client accounts of the maid manager (personas/maid_manager.rs): the     *)
(* Account quota arithmetic, and the MaidManager handlers with the         *)
(* messages they hand to the routing node.  Its handlers take &mut self    *)
(* and run one at a time.                                                  *)
(***************************************************************************)
EXTENDS Naturals, Sequences, FiniteSets

(***************************************************************************)
(* Bounds of the model.                                                    *)
(***************************************************************************)
NumProcs == 2
MaxVersion == 2
MaxAmount == 2
MaxCalls == 3

Procs == 1..NumProcs

None == "None"

\* no process (the holder of a free lock)
NoProc == 0

(***************************************************************************)
(* Money is a u64 of nanos.  It is kept as three limbs in base 10^9, most  *)
(* significant first, so that the genesis amount keeps its width.          *)
(***************************************************************************)
NanosPerCoin == 1000000000

U64Max == <<18, 446744073, 709551615>>

U32Max == <<0, 4, 294967295>>

MoneyLeq(a, b) ==
    \/ a[1] < b[1]
    \/ a[1] = b[1] /\ a[2] < b[2]
    \/ a[1] = b[1] /\ a[2] = b[2] /\ a[3] <= b[3]

Nano(n) == <<0, n \div NanosPerCoin, n % NanosPerCoin>>

Zero == Nano(0)

\* the None of a checked operation
NoMoney == <<>>

\* u64::checked_add: None on overflow
CheckedAdd(a, b) ==
    LET s3 == a[3] + b[3]
        s2 == a[2] + b[2] + (s3 \div NanosPerCoin)
        s1 == a[1] + b[1] + (s2 \div NanosPerCoin)
        r  == <<s1, s2 % NanosPerCoin, s3 % NanosPerCoin>>
    IN  IF MoneyLeq(r, U64Max) THEN r ELSE NoMoney

\* u64::checked_sub: None on underflow
CheckedSub(a, b) ==
    IF ~MoneyLeq(b, a) THEN NoMoney
    ELSE LET b3 == IF a[3] < b[3] THEN 1 ELSE 0
             d3 == a[3] + b3 * NanosPerCoin - b[3]
             b2 == IF a[2] < b[2] + b3 THEN 1 ELSE 0
             d2 == a[2] + b2 * NanosPerCoin - b[2] - b3
             d1 == a[1] - b[1] - b2
         IN  <<d1, d2, d3>>

\* a + b in limbs, of any size
MoneyPlus(a, b) ==
    LET s3 == a[3] + b[3]
        s2 == a[2] + b[2] + (s3 \div NanosPerCoin)
    IN  <<a[1] + b[1] + (s2 \div NanosPerCoin), s2 % NanosPerCoin, s3 % NanosPerCoin>>

\* x as u64 * 1_000_000_000, for x a u32: one limb to the left
TimesNanosPerCoin(x) == <<x[2], x[3], 0>>

\* let balance = u32::MAX as u64 * 1_000_000_000;
GenesisBalance == TimesNanosPerCoin(U32Max)


(***************************************************************************)
(* Keys, replica infos, wallets.                                           *)
(***************************************************************************)
\* ReplicaInfo: the section's key set and the section proof chain
Info1 == [peer_replicas |-> "K1", section_proof_chain |-> <<"K1">>]

Info2 == [peer_replicas |-> "K2", section_proof_chain |-> <<"K1", "K2">>]

Infos == {Info1, Info2}

\* the section keys a proof may name
SectionKeys == {"K1", "K2"}

\* the key set get_genesis makes for its own proof
GenesisKey == "KGen"

\* wallet ids: a section key (the genesis wallet) or a client key
Wallets == {"K1", "K2", "A", "B"}

\* the wallets a custody admission would put in locks
Custodied == {"K1", "A"}

(***************************************************************************)
(* Inputs: debits, signed transfers, agreement proofs, recovered events.   *)
(***************************************************************************)
Recipient(s) == IF s = "K1" THEN "A" ELSE IF s = "A" THEN "B" ELSE "A"

FirstDebit(d) == d.counter = 1 /\ d.amount = Nano(1)

\* the genesis wallet debits at each version and in each amount, the other
\* wallets make a first debit
Debits ==
    { d \in [sender : {"K1", "A", "B"}, counter : 1..MaxVersion,
             to : Wallets, amount : {Nano(a) : a \in 1..MaxAmount}] :
        /\ d.to = Recipient(d.sender)
        /\ d.counter = 1 \/ d.amount = Nano(1)
        /\ d.sender # "K1" => FirstDebit(d) }

\* SignedTransfer: the debit (its credit is derived) and whether the
\* owner's signature verifies; it names no section key
SignedTransfers ==
    { t \in [debit : Debits, key : {None}, sig : BOOLEAN] :
        ~t.sig => (FirstDebit(t.debit) /\ t.debit.sender = "K1") }

\* TransferAgreementProof and CreditAgreementProof: the section key that
\* signed, and whether the threshold signature verifies under it
AgreementProofs ==
    { a \in [debit : Debits, key : SectionKeys, sig : BOOLEAN] :
        (a.key # "K1" \/ ~a.sig) =>
            /\ FirstDebit(a.debit) /\ a.debit.sender = "K1"
            /\ a.sig \/ a.key = "K1" }

\* let credit_proof = get_genesis(balance, PublicKey::Bls(peer_replicas.public_key()))
get_genesis(balance, id) ==
    [debit |-> [sender |-> "Genesis", counter |-> 0, to |-> id, amount |-> balance],
     key |-> GenesisKey, sig |-> TRUE]

TransferValidated(t, share, replicas) ==
    [type |-> "TransferValidated", debit |-> t.debit, key |-> None,
     sig |-> t.sig, share |-> share, replicas |-> replicas]

TransferRegistered(a) ==
    [type |-> "TransferRegistered", debit |-> a.debit, key |-> a.key,
     sig |-> a.sig, share |-> None, replicas |-> None]

TransferPropagated(a, share, replicas) ==
    [type |-> "TransferPropagated", debit |-> a.debit, key |-> a.key,
     sig |-> a.sig, share |-> share, replicas |-> replicas]

NoDebit == [sender |-> None, counter |-> 0, to |-> None, amount |-> Zero]

KnownGroupAdded ==
    [type |-> "KnownGroupAdded", debit |-> NoDebit, key |-> None,
     sig |-> TRUE, share |-> None, replicas |-> None]

\* the id of the credit a debit gives rise to
CreditId(d) == <<d.sender, d.counter>>

(***************************************************************************)
(* The wallet-replica library: a wallet is replayed from its history and   *)
(* checks an input without changing anything.                              *)
(***************************************************************************)
Max(a, b) == IF a >= b THEN a ELSE b

\* a wallet with no history
NewWallet(id) ==
    [ok |-> TRUE, id |-> id, balance |-> Zero, pending |-> 0, version |-> 0,
     credits |-> {}, debits |-> {}, applied |-> 0]

\* one event applied to a wallet; not ok when the event does not apply
Apply(w, e) ==
    IF ~w.ok THEN w
    ELSE IF e.type = "TransferValidated" THEN
        [w EXCEPT !.pending = e.debit.counter, !.applied = @ + 1]
    ELSE IF e.type = "TransferRegistered" THEN
        IF e.debit.sender # w.id \/ CheckedSub(w.balance, e.debit.amount) = NoMoney
        THEN [w EXCEPT !.ok = FALSE]
        ELSE [w EXCEPT !.balance = CheckedSub(w.balance, e.debit.amount),
                       !.version = @ + 1,
                       !.debits = @ \cup {e.debit},
                       !.applied = @ + 1]
    ELSE IF e.type = "TransferPropagated" THEN
        IF e.debit.to # w.id \/ CheckedAdd(w.balance, e.debit.amount) = NoMoney
        THEN [w EXCEPT !.ok = FALSE]
        ELSE [w EXCEPT !.balance = CheckedAdd(w.balance, e.debit.amount),
                       !.credits = @ \cup {CreditId(e.debit)},
                       !.applied = @ + 1]
    ELSE w

RECURSIVE Replay(_, _)
Replay(w, events) ==
    IF events = <<>> THEN w
    ELSE Replay(Apply(w, Head(events)), Tail(events))

\* WalletReplica::from_history: the wallet, not ok for a history that
\* does not replay
from_history(id, events) == Replay(NewWallet(id), events)

\* the version the wallet expects of the next debit
NextVersion(w) == Max(w.pending, w.version) + 1

\* WalletReplica::validate: "Ok" or the validation error
WalletValidate(w, t) ==
    IF ~t.sig THEN "InvalidSignature"
    ELSE IF t.debit.sender # w.id THEN "InvalidOperation"
    ELSE IF t.debit.counter # NextVersion(w) THEN "OutOfOrder"
    ELSE IF ~MoneyLeq(t.debit.amount, w.balance) THEN "InsufficientBalance"
    ELSE "Ok"

\* WalletReplica::register: "Ok", "NoChange" for an agreement already
\* registered, or the error
WalletRegister(w, a, past_key) ==
    IF past_key = None THEN "UnknownSectionKey"
    ELSE IF ~a.sig THEN "InvalidSignature"
    ELSE IF a.debit \in w.debits THEN "NoChange"
    ELSE IF a.debit.counter # w.version + 1 THEN "OutOfOrder"
    ELSE "Ok"

\* WalletReplica::receive_propagated: "Ok", "NoChange" for a credit already
\* recorded, or the error
WalletReceivePropagated(w, a, past_key) ==
    IF past_key = None THEN "UnknownSectionKey"
    ELSE IF ~a.sig THEN "InvalidSignature"
    ELSE IF CreditId(a.debit) \in w.credits THEN "NoChange"
    ELSE "Ok"

\* WalletReplica::genesis: the wallet has no history and the proof verifies
\* under the key the resolver gives
WalletGenesis(w, a, past_key) ==
    IF w.applied # 0 THEN "InvalidGenesis"
    ELSE IF past_key = None \/ past_key # a.key \/ ~a.sig THEN "InvalidGenesis"
    ELSE "Ok"

(***************************************************************************)
(* Recovered histories handed to initiate.                                 *)
(***************************************************************************)
GenesisEvent ==
    TransferPropagated(get_genesis(GenesisBalance, "K1"), "K1", "K1")

DebitOf(s, c, a) ==
    [sender |-> s, counter |-> c, to |-> Recipient(s), amount |-> Nano(a)]

RecoveredSlices ==
    { \* the history of the genesis wallet after one registered debit
      << GenesisEvent,
         TransferValidated([debit |-> DebitOf("K1", 1, 1), key |-> None, sig |-> TRUE],
                           "K1", "K1"),
         TransferRegistered([debit |-> DebitOf("K1", 1, 1), key |-> "K1", sig |-> TRUE]) >>,
      \* a registered debit out of order and above the credits of the wallet
      << TransferRegistered([debit |-> DebitOf("A", MaxVersion, MaxAmount),
                             key |-> "K1", sig |-> TRUE]) >>,
      \* a credit whose proof does not verify
      << TransferPropagated([debit |-> DebitOf("K1", 1, 1), key |-> "K2", sig |-> FALSE],
                            "K2", "K2") >>,
      \* a credit of a custodied wallet, then a debit of another wallet
      << TransferPropagated([debit |-> DebitOf("K1", 1, 1), key |-> "K1", sig |-> TRUE],
                            "K1", "K1"),
         TransferRegistered([debit |-> DebitOf("B", 1, 1), key |-> "K1", sig |-> TRUE]) >>,
      \* an event of the reserved kind after one that appends
      << TransferValidated([debit |-> DebitOf("A", 1, 1), key |-> None, sig |-> TRUE],
                           "K1", "K1"),
         KnownGroupAdded >>,
      \* the events of two custodied wallets, interleaved
      << TransferValidated([debit |-> DebitOf("K1", 1, 1), key |-> None, sig |-> TRUE],
                           "K1", "K1"),
         TransferPropagated([debit |-> DebitOf("K1", 1, 1), key |-> "K1", sig |-> TRUE],
                            "K1", "K1"),
         TransferRegistered([debit |-> DebitOf("K1", 1, 1), key |-> "K1", sig |-> TRUE]) >>,
      \* an event of the reserved kind alone
      << KnownGroupAdded >> }

(***************************************************************************)
(* Requests and results.                                                   *)
(***************************************************************************)
NoArg == [debit |-> NoDebit, key |-> None, sig |-> FALSE]

Request(op, id, arg, events) ==
    [op |-> op, id |-> id, arg |-> arg, events |-> events]

NoRequest == Request(None, None, NoArg, <<>>)

\* the calls that may append
Commands ==
    { Request("initiate", None, NoArg, es) : es \in RecoveredSlices \cup {<<>>} }
    \cup { Request("validate", t.debit.sender, t, <<>>) : t \in SignedTransfers }
    \cup { Request("register", a.debit.sender, a, <<>>) : a \in AgreementProofs }
    \cup { Request("receive_propagated", a.debit.to, a, <<>>) : a \in AgreementProofs }

\* the function of replicas.rs a request runs
Handler(r) ==
    IF r.op = "initiate"
    THEN IF r.events = <<>> THEN "genesis" ELSE "replay"
    ELSE r.op

Result(kind, err, cause, events, money) ==
    [kind |-> kind, err |-> err, cause |-> cause, events |-> events, money |-> money]

NoResult == Result("Pending", None, None, <<>>, Zero)

\* Ok(None)
OkNone == Result("None", None, None, <<>>, Zero)

\* Ok(Some(event))
OkSome(e) == Result("Some", None, None, <<e>>, Zero)

Err(err, cause) == Result("Err", err, cause, <<>>, Zero)

\* unimplemented!()
Panic == Result("Panic", None, None, <<>>, Zero)

(***************************************************************************)
(* State.                                                                  *)
(***************************************************************************)
VARIABLES
    locks,      \* Replicas.locks: the wallet ids that have a mutex
    mutex,      \* per wallet, the process holding its Mutex<TransferStore>
    signing,    \* the process holding info.signing
    info,       \* Replicas.info
    stores,     \* the wallet ids that have a store under root_dir
    log,        \* per wallet, the events of its store, in append order
    pc,         \* per process, where its call stands
    req,        \* per process, its call
    idx,        \* per process, the event of the slice initiate is at
    loaded,     \* per process, the events load_wallet read
    ret,        \* per process, what its call returned
    calls,      \* the calls started so far
    over,       \* history: the pairs of processes whose latest calls ran
                \* at the same time
    account,    \* maid_manager.rs: an Account made by Account::default()
    answer,     \* what the latest put_data / delete_data of account gave
    ops,        \* the calls made so far on account or on the maid manager
    accounts,       \* MaidManager.accounts
    request_cache,  \* MaidManager.request_cache
    routing,        \* the messages handed to the routing node, in order
    handled,        \* the latest call of a handler of the maid manager
    peer,           \* a second maid manager, of the same close groups
    mail            \* mpid_manager.rs: a MailBox and the latest call on it

\* the state of replicas.rs
replica == <<locks, mutex, signing, info, stores, log, pc, req, idx, loaded, ret,
             calls, over>>

\* the state of personas/
\* the state of the maid manager
manager == <<accounts, request_cache, routing, handled>>

personas == <<account, answer, ops, manager, peer, mail>>

vars == <<replica, personas>>

(***************************************************************************)
(* personas/maid_manager.rs: the Account of a client.  Its two fields are  *)
(* u64, kept in the limbs of Money.                                        *)
(***************************************************************************)
DEFAULT_ACCOUNT_SIZE == 1073741824

DEFAULT_PAYMENT == 1048576

MaxOps == 4

\* a u64 below 2^31 in limbs
U64(n) == Nano(n)

\* the sizes handed to put_data and delete_data
Sizes ==
    { Zero, U64(1), U64(DEFAULT_PAYMENT), U64(DEFAULT_ACCOUNT_SIZE - 1),
      U64(DEFAULT_ACCOUNT_SIZE), MoneyPlus(U64(DEFAULT_ACCOUNT_SIZE), U64(1)),
      U64Max }

\* the value of a field after an arithmetic panic
Panicked == NoMoney

\* u64::wrapping_add and u64::wrapping_sub
WrappingAdd(x, y) ==
    IF MoneyLeq(MoneyPlus(x, y), U64Max) THEN MoneyPlus(x, y)
    ELSE CheckedSub(CheckedSub(MoneyPlus(x, y), U64Max), U64(1))

WrappingSub(x, y) ==
    IF MoneyLeq(y, x) THEN CheckedSub(x, y)
    ELSE CheckedSub(MoneyPlus(MoneyPlus(x, U64Max), U64(1)), y)

\* x += y and x -= y on u64: past the range the build panics (overflow
\* checks on) or wraps
AddAssign(x, y, checks) ==
    IF CheckedAdd(x, y) # NoMoney THEN CheckedAdd(x, y)
    ELSE IF checks THEN Panicked ELSE WrappingAdd(x, y)

SubAssign(x, y, checks) ==
    IF CheckedSub(x, y) # NoMoney THEN CheckedSub(x, y)
    ELSE IF checks THEN Panicked ELSE WrappingSub(x, y)

Account(d, s) == [data_stored |-> d, space_available |-> s]

\* impl Default for Account
AccountDefault == Account(Zero, U64(DEFAULT_ACCOUNT_SIZE))

\* what a call of put_data or delete_data leaves: the account and the answer
Left(a, result) == [account |-> a, result |-> result]

\* the size added to data_stored and not taken from space_available
ChargedOneSide(a, size, checks) ==
    IF AddAssign(a.data_stored, size, checks) = Panicked THEN Left(a, "Panic")
    ELSE Left(Account(AddAssign(a.data_stored, size, checks), a.space_available), "Ok")

\* self.data_stored += size; self.space_available -= size; Ok(())
Charged(a, size, checks) ==
    LET d == AddAssign(a.data_stored, size, checks)
        s == SubAssign(a.space_available, size, checks)
    IN  IF d = Panicked THEN Left(a, "Panic")
        ELSE IF s = Panicked THEN Left(Account(d, a.space_available), "Panic")
        ELSE Left(Account(d, s), "Ok")

\* put_data that refuses a size equal to the space left
put_data_refusing_exact_fit(a, size, checks) ==
    IF MoneyLeq(a.space_available, size) THEN Left(a, "LowBalance")
    ELSE Charged(a, size, checks)

\* fn put_data(&mut self, size: u64) -> Result<(), ClientError>
put_data(a, size, checks) ==
    IF ~MoneyLeq(size, a.space_available) THEN Left(a, "LowBalance")
    ELSE Charged(a, size, checks)

\* self.data_stored -= size; self.space_available += size;
Refunded(a, size, checks) ==
    LET d == SubAssign(a.data_stored, size, checks)
        s == AddAssign(a.space_available, size, checks)
    IN  IF d = Panicked THEN Left(a, "Panic")
        ELSE IF s = Panicked THEN Left(Account(d, a.space_available), "Panic")
        ELSE Left(Account(d, s), "Unit")

\* delete_data without the branch for a size above data_stored
delete_data_uncapped(a, size, checks) == Refunded(a, size, checks)

\* fn delete_data(&mut self, size: u64)
delete_data(a, size, checks) ==
    IF ~MoneyLeq(size, a.data_stored)
    THEN LET s == AddAssign(a.space_available, a.data_stored, checks)
         IN  IF s = Panicked THEN Left(a, "Panic")
             ELSE Left(Account(Zero, s), "Unit")
    ELSE Refunded(a, size, checks)

\* the latest call on account: which, with what size, and its answer
Answer(op, size, result) == [op |-> op, size |-> size, result |-> result]

(***************************************************************************)
(* personas/maid_manager.rs: the MaidManager, its requests and the         *)
(* messages it hands to the routing node.                                  *)
(***************************************************************************)
Clients == {"c1", "c2"}

MessageIds == {"m1", "m2"}

\* routing::Authority
Authority(kind, name) == [kind |-> kind, name |-> name]

Client(name) == Authority("Client", name)

ClientManager(name) == Authority("ClientManager", name)

NaeManager(name) == Authority("NaeManager", name)

NoAuthority == Authority(None, None)

\* utils::client_name(&request.src)
client_name(authority) == authority.name

\* routing::Data: immutable data, or structured data with its type tag
Immutable(name) == [kind |-> "Immutable", type_tag |-> 0, name |-> name]

Structured(type_tag, name) ==
    [kind |-> "Structured", type_tag |-> type_tag, name |-> name]

NoData == [kind |-> None, type_tag |-> 0, name |-> None]

Datas == {Immutable("d1"), Structured(0, "d2"), Structured(1, "d3")}

\* RequestMessage { src, dst, content: RequestContent::Put(data, message_id) }
RequestMessage(src, dst, data, id) ==
    [src |-> src, dst |-> dst, data |-> data, id |-> id]

NoRequestMessage == RequestMessage(NoAuthority, NoAuthority, NoData, None)

\* the puts of the clients, each sent to the client's manager
PutRequests ==
    { RequestMessage(Client(c), ClientManager(c), d, m) :
        c \in Clients, d \in Datas, m \in MessageIds }

\* serialisation::serialise and serialisation::deserialise::<ClientError>
serialise(value) == <<"serialised", value>>

deserialise(bytes) ==
    IF Len(bytes) = 2 /\ bytes[1] = "serialised" THEN bytes[2] ELSE None

\* sha512::hash
hash(bytes) == <<"sha512", bytes>>

\* the error indicators a data manager may send back: a ClientError, or
\* bytes that are none
Indicators == {serialise("DataExists"), <<"unreadable">>}

\* the accounts a refresh may carry
RefreshAccounts ==
    { AccountDefault,
      Account(U64(DEFAULT_PAYMENT), U64(DEFAULT_ACCOUNT_SIZE - DEFAULT_PAYMENT)),
      Account(U64(DEFAULT_ACCOUNT_SIZE), Zero),
      \* decoded from a message: not the fields of an account any manager
      \* has charged
      Account(U64Max, U64(DEFAULT_PAYMENT)) }

\* a message handed to the routing node
Message(type, src, dst, id, request, data, bytes) ==
    [type |-> type, src |-> src, dst |-> dst, id |-> id, request |-> request,
     data |-> data, bytes |-> bytes]

\* routing_node.send_put_failure(src, dst, request, external_error_indicator, message_id)
PutFailure(src, dst, request, bytes, id) ==
    Message("PutFailure", src, dst, id, request, NoData, bytes)

\* routing_node.send_put_request(src, dst, data, message_id)
PutRequest(src, dst, data, id) ==
    Message("PutRequest", src, dst, id, NoRequestMessage, data, <<>>)

\* routing_node.send_put_success(src, dst, message_hash, message_id)
PutSuccess(src, dst, message_hash, id) ==
    Message("PutSuccess", src, dst, id, NoRequestMessage, NoData, message_hash)

\* routing_node.send_refresh_request(src, serialised_refresh)
RefreshRequest(src, bytes) ==
    Message("Refresh", src, src, None, NoRequestMessage, NoData, bytes)

\* an insert that leaves an entry already there as it is
MapInsertKeepingPrior(map, key, value) ==
    [k \in DOMAIN map \cup {key} |-> IF k \in DOMAIN map THEN map[k] ELSE value]

\* HashMap::insert and remove, LruCache::insert and remove
MapInsert(map, key, value) ==
    [k \in DOMAIN map \cup {key} |-> IF k = key THEN value ELSE map[k]]

MapRemove(map, key) == [k \in DOMAIN map \ {key} |-> map[k]]

\* what a handler leaves: the maps, the messages it sent and its result
Effect(accs, cache, sent, result) ==
    [accounts |-> accs, request_cache |-> cache, sent |-> sent, result |-> result]

\* fn reply_with_put_failure: the message sent
reply_with_put_failure(request, id, error) ==
    PutFailure(request.dst, request.src, request, serialise(error), id)

\* forward_put_request that opens an account for a client that has none
forward_put_request_opening(accs, cache, request, checks) ==
    LET client == client_name(request.src)
        held == IF client \in DOMAIN accs THEN accs[client] ELSE AccountDefault
        left == put_data(held, U64(DEFAULT_PAYMENT), checks)
    IN  Effect(MapInsert(accs, client, left.account),
                MapInsert(cache, request.id, request),
                <<PutRequest(request.dst, NaeManager(request.data.name),
                             request.data, request.id)>>,
                "Ok")

\* fn forward_put_request
forward_put_request(accs, cache, request, checks) ==
    LET client == client_name(request.src)
    IN  IF client \notin DOMAIN accs
        THEN Effect(accs, cache,
                     <<reply_with_put_failure(request, request.id, "NoSuchAccount")>>,
                     "NoSuchAccount")
        ELSE LET left == put_data(accs[client], U64(DEFAULT_PAYMENT), checks)
             IN  IF left.result = "LowBalance"
                 THEN Effect(accs, cache,
                              <<reply_with_put_failure(request, request.id, "LowBalance")>>,
                              "LowBalance")
                 ELSE IF left.result = "Panic"
                 THEN Effect(MapInsert(accs, client, left.account), cache, <<>>, "Panic")
                 ELSE Effect(MapInsert(accs, client, left.account),
                              MapInsert(cache, request.id, request),
                              <<PutRequest(request.dst, NaeManager(request.data.name),
                                           request.data, request.id)>>,
                              "Ok")

\* fn handle_put_immutable_data
handle_put_immutable_data(request, checks) ==
    forward_put_request(accounts, request_cache, request, checks)

\* handle_put_structured_data that opens the account anew whether or not
\* the client has one
handle_put_structured_data_reopening(request, checks) ==
    IF request.data.type_tag = 0
    THEN forward_put_request(
             MapInsert(accounts, client_name(request.src), AccountDefault),
             request_cache, request, checks)
    ELSE forward_put_request(accounts, request_cache, request, checks)

\* fn handle_put_structured_data
handle_put_structured_data(request, checks) ==
    LET client == client_name(request.src)
    IN  IF request.data.type_tag = 0
        THEN IF client \in DOMAIN accounts
             THEN Effect(accounts, request_cache,
                          <<reply_with_put_failure(request, request.id, "AccountExists")>>,
                          "AccountExists")
             ELSE forward_put_request(MapInsert(accounts, client, AccountDefault),
                                      request_cache, request, checks)
        ELSE forward_put_request(accounts, request_cache, request, checks)

\* pub fn handle_put
handle_put(request, checks) ==
    IF request.data.kind = "Immutable"
    THEN handle_put_immutable_data(request, checks)
    ELSE handle_put_structured_data(request, checks)

\* handle_put_success that reads the cached request and leaves it cached
handle_put_success_peeking(id) ==
    IF id \in DOMAIN request_cache
    THEN Effect(accounts, request_cache,
                <<PutSuccess(request_cache[id].dst, request_cache[id].src,
                             hash(serialise(request_cache[id])), id)>>,
                "Ok")
    ELSE Effect(accounts, request_cache, <<>>, "FailedToFindCachedRequest")

\* pub fn handle_put_success
handle_put_success(id) ==
    IF id \in DOMAIN request_cache
    THEN LET client_request == request_cache[id]
         IN  Effect(accounts, MapRemove(request_cache, id),
                     <<PutSuccess(client_request.dst, client_request.src,
                                  hash(serialise(client_request)), id)>>,
                     "Ok")
    ELSE Effect(accounts, request_cache, <<>>, "FailedToFindCachedRequest")

\* pub fn handle_put_failure
handle_put_failure(id, external_error_indicator, checks) ==
    IF id \in DOMAIN request_cache
    THEN LET client_request == request_cache[id]
             client == client_name(client_request.src)
             cache == MapRemove(request_cache, id)
         IN  IF client \notin DOMAIN accounts
             THEN Effect(accounts, cache, <<>>, "Ok")
             ELSE LET left == delete_data(accounts[client], U64(DEFAULT_PAYMENT), checks)
                      accs == MapInsert(accounts, client, left.account)
                  IN  IF left.result = "Panic"
                      THEN Effect(accs, cache, <<>>, "Panic")
                      ELSE IF deserialise(external_error_indicator) = None
                      THEN Effect(accs, cache, <<>>, "Serialisation")
                      ELSE Effect(accs, cache,
                                   <<PutFailure(client_request.dst, client_request.src,
                                                client_request,
                                                serialise(deserialise(external_error_indicator)),
                                                id)>>,
                                   "Ok")
    ELSE Effect(accounts, request_cache, <<>>, "FailedToFindCachedRequest")

\* send_refresh that carries a new account in place of the client's
send_refresh_of_default(maid_name, held) ==
    RefreshRequest(ClientManager(maid_name), serialise(<<maid_name, AccountDefault>>))

\* fn send_refresh: the message sent
send_refresh(maid_name, held) ==
    RefreshRequest(ClientManager(maid_name), serialise(<<maid_name, held>>))

\* the orders in which a HashMap may give the names of names
NameOrders(names) ==
    { o \in [1..Cardinality(names) -> names] :
        \A i, j \in 1..Cardinality(names) : o[i] = o[j] => i = j }

\* what routing_node.close_group(name) may answer: Ok(Some(_)), Ok(None),
\* Err(_)
CloseGroups == {"Some", "None", "Err"}

\* no close group was asked for
NoGroups == [c \in {} |-> "None"]

\* handle_churn that also keeps an account whose close group is not known
handle_churn_keeping_on_error(accs, cache, group, order) ==
    LET close == {c \in DOMAIN accs : group[c] # "None"}
    IN  Effect([c \in close |-> accs[c]], cache,
               SelectSeq([i \in 1..Len(order) |-> send_refresh(order[i], accs[order[i]])],
                         LAMBDA m : group[m.src.name] = "Some"),
               "Unit")

\* pub fn handle_churn: group is what close_group answers for each name and
\* order the order in which the map gives its entries; an account is kept,
\* and a refresh sent for it, when the answer is Ok(Some(_))
handle_churn(accs, cache, group, order) ==
    LET close == {c \in DOMAIN accs : group[c] = "Some"}
    IN  Effect([c \in close |-> accs[c]], cache,
               SelectSeq([i \in 1..Len(order) |-> send_refresh(order[i], accs[order[i]])],
                         LAMBDA m : group[m.src.name] = "Some"),
               "Unit")

\* pub fn handle_refresh: the accounts it leaves
handle_refresh(accs, name, held) == MapInsert(accs, name, held)

\* a second manager: its accounts, the messages of routing (by position)
\* that were delivered to it, and history: for each of its accounts the
\* message that gave it
Peer(accs, taken, given) == [accounts |-> accs, taken |-> taken, given |-> given]

\* the latest call of a handler: which, with what, its result, the
\* accounts it found and the close groups it was told of
Handled(op, request, id, result, found, group) ==
    [op |-> op, request |-> request, id |-> id, result |-> result,
     found |-> found, group |-> group]

(***************************************************************************)
(* personas/mpid_manager.rs: the MailBox of an account of the mpid         *)
(* manager.  Its three counters are u64, kept in the limbs of Money.       *)
(***************************************************************************)
\* the allowance of the mailbox, the sizes put and removed, and the names of
\* its entries
MailAllowance == 4

MailSizes == {U64(1), U64(2), U64(MailAllowance + 1)}

Entries == {"e1", "e2"}

MailBox(allowance, used, available, entries) ==
    [allowance |-> allowance, used_space |-> used, space_available |-> available,
     mail_box |-> entries]

\* fn new(allowance: u64) -> MailBox
MailBox_new(allowance) == MailBox(allowance, Zero, allowance, [e \in {} |-> None])

\* what a call leaves of the mailbox, and the bool it returns
Boxed(box, result) == [box |-> box, result |-> result]

\* HashMap::insert gives back the value the key had
Prior(map, key) == IF key \in DOMAIN map THEN "Some" ELSE "None"

\* self.used_space += size; self.space_available -= size
Used(box, size, checks) ==
    LET u == AddAssign(box.used_space, size, checks)
        s == SubAssign(box.space_available, size, checks)
    IN  IF u = Panicked THEN Boxed(box, "Panic")
        ELSE IF s = Panicked
        THEN Boxed(MailBox(box.allowance, u, box.space_available, box.mail_box), "Panic")
        ELSE Boxed(MailBox(box.allowance, u, s, box.mail_box), "true")

\* self.used_space -= size; self.space_available += size
Freed(box, size, checks) ==
    LET u == SubAssign(box.used_space, size, checks)
        s == AddAssign(box.space_available, size, checks)
    IN  IF u = Panicked THEN Boxed(box, "Panic")
        ELSE IF s = Panicked
        THEN Boxed(MailBox(box.allowance, u, box.space_available, box.mail_box), "Panic")
        ELSE Boxed(MailBox(box.allowance, u, s, box.mail_box), "true")

\* fn put(&mut self, size: u64, entry: &XorName, public_key: &Option<PublicKey>) -> bool
MailBox_put(box, size, entry, public_key, checks) ==
    IF ~MoneyLeq(size, box.space_available) THEN Boxed(box, "false")
    ELSE IF entry \in DOMAIN box.mail_box THEN Boxed(box, "false")
    ELSE LET inserted == MailBox(box.allowance, box.used_space, box.space_available,
                                 MapInsert(box.mail_box, entry, public_key))
         IN  IF Prior(box.mail_box, entry) = "Some"
             THEN Used(inserted, size, checks)
             ELSE Boxed(inserted, "false")

\* fn remove(&mut self, size: u64, entry: &XorName) -> bool
MailBox_remove(box, size, entry, checks) ==
    IF entry \notin DOMAIN box.mail_box THEN Boxed(box, "false")
    ELSE LET first == Freed(box, size, checks)
         IN  IF first.result = "Panic" THEN first
             ELSE IF Prior(first.box.mail_box, entry) = "Some"
             THEN Freed(MailBox(first.box.allowance, first.box.used_space,
                                first.box.space_available,
                                MapRemove(first.box.mail_box, entry)),
                        size, checks)
             ELSE Boxed(first.box, "false")

\* the latest call on the mailbox: which, with what, and the bool it gave
MailAnswer(op, size, entry, result) ==
    [op |-> op, size |-> size, entry |-> entry, result |-> result]

\* the mailbox, history: the size each recorded entry was put with, and the
\* latest call
Mail(box, sizes, given) == [box |-> box, sizes |-> sizes, answer |-> given]

\* let mut account = Account::default(); MaidManager::new()
PersonasInit ==
    /\ account = AccountDefault
    /\ answer = Answer(None, Zero, None)
    /\ ops = 0
    /\ accounts = [c \in {} |-> AccountDefault]
    /\ request_cache = [m \in {} |-> NoRequestMessage]
    /\ routing = <<>>
    /\ handled = Handled(None, NoRequestMessage, None, None,
                         [c \in {} |-> AccountDefault], NoGroups)
    /\ peer = Peer([c \in {} |-> AccountDefault], {}, [c \in {} |-> 0])
    /\ mail = Mail(MailBox_new(U64(MailAllowance)), [e \in {} |-> Zero],
                   MailAnswer(None, Zero, None, None))

\* Replicas::new that admits the wallets of Custodied to locks
InitAdmitting ==
    /\ locks = Custodied
    /\ mutex = [w \in Wallets |-> NoProc]
    /\ signing = NoProc
    /\ info \in Infos
    /\ stores = {}
    /\ log = [w \in Wallets |-> <<>>]
    /\ pc = [p \in Procs |-> "idle"]
    /\ req = [p \in Procs |-> NoRequest]
    /\ idx = [p \in Procs |-> 0]
    /\ loaded = [p \in Procs |-> <<>>]
    /\ ret = [p \in Procs |-> NoResult]
    /\ calls = 0
    /\ over = {}
    /\ PersonasInit

\* Replicas::new: no lock, and nothing was ever stored
Init ==
    /\ locks = {}
    /\ mutex = [w \in Wallets |-> NoProc]
    /\ signing = NoProc
    /\ info \in Infos
    /\ stores = {}
    /\ log = [w \in Wallets |-> <<>>]
    /\ pc = [p \in Procs |-> "idle"]
    /\ req = [p \in Procs |-> NoRequest]
    /\ idx = [p \in Procs |-> 0]
    /\ loaded = [p \in Procs |-> <<>>]
    /\ ret = [p \in Procs |-> NoResult]
    /\ calls = 0
    /\ over = {}
    /\ PersonasInit

\* a replica whose locks map holds the wallets of Custodied, each with its
\* store: the state a custody admission would leave
InitCustody ==
    /\ locks = Custodied
    /\ mutex = [w \in Wallets |-> NoProc]
    /\ signing = NoProc
    /\ info \in Infos
    /\ stores = Custodied
    /\ log = [w \in Wallets |-> <<>>]
    /\ pc = [p \in Procs |-> "idle"]
    /\ req = [p \in Procs |-> NoRequest]
    /\ idx = [p \in Procs |-> 0]
    /\ loaded = [p \in Procs |-> <<>>]
    /\ ret = [p \in Procs |-> NoResult]
    /\ calls = 0
    /\ over = {}
    /\ PersonasInit

(***************************************************************************)
(* The helpers of Replicas.                                                *)
(***************************************************************************)
\* a lock made for any wallet asked for
load_key_lock_any(id) == "Ok"

\* match self.locks.get(&id) { Some(val) => Ok(val.clone()), None => Err(Error::Logic) }
load_key_lock(id) == IF id \in locks THEN "Ok" ELSE "Logic"

\* the key of the section proof chain equal to the key of the proof, if any
find_past_key(key) ==
    IF \E i \in 1..Len(info.section_proof_chain) : info.section_proof_chain[i] = key
    THEN key
    ELSE None

\* store.get_all() replayed by WalletReplica::from_history
load_wallet(id, events) == from_history(id, events)

\* a lock() that never waits
LockNeverWaits(id) == TRUE

\* key_lock.lock().await goes on when no one holds the mutex
LockFree(id) == mutex[id] = NoProc

\* info.signing.lock().await goes on when no one holds the signing lock
SigningFree == signing = NoProc

\* every event put to the log of its sender
EventWalletOfSender(e) == e.debit.sender

\* the wallet of an event of the slice
EventWallet(e) ==
    IF e.type = "TransferPropagated" THEN e.debit.to ELSE e.debit.sender

\* where a handler goes after the wallet's check: on to a step, or back to
\* the caller with a result
Go(step) == [pc |-> step, ret |-> NoResult]

Return(result) == [pc |-> "done", ret |-> result]

\* the answer of wallet.genesis not looked at
genesis_unchecked(r) == Go("sign")

\* if wallet.genesis(credit_proof, past_key).is_ok() {..} Err(Error::InvalidMessage)
genesis_checked(r) ==
    IF r = "Ok" THEN Go("sign") ELSE Return(Err("InvalidMessage", None))

\* the Err arm falling through to Ok(None)
validate_error_dropped(r) ==
    IF r = "Ok" THEN Go("sign") ELSE Return(OkNone)

\* match wallet.validate(..) { Ok(None) => (), Err(e) => return Err(..), Ok(Some(())) => {..} }
validate_checked(r) ==
    IF r = "Ok" THEN Go("sign")
    ELSE IF r = "NoChange" THEN Return(OkNone)
    ELSE Return(Err("NetworkData", r))

\* Ok(None) taken for success, as an is_ok() test would
register_none_inserted(r) ==
    IF r \in {"Ok", "NoChange"} THEN Go("insert") ELSE Return(Err("NetworkData", r))

\* match wallet.register(..) { Ok(None) => (), Err(e) => return Err(..), Ok(Some(event)) => {..} }
register_checked(r) ==
    IF r = "Ok" THEN Go("insert")
    ELSE IF r = "NoChange" THEN Return(OkNone)
    ELSE Return(Err("NetworkData", r))

\* if wallet.receive_propagated(..).is_ok() {..} Err(Error::InvalidMessage)
receive_propagated_checked(r) ==
    IF r \in {"Ok", "NoChange"} THEN Go("sign") ELSE Return(Err("InvalidMessage", None))

\* the wallet's check of the request, and what the handler makes of it
Checked(r, w) ==
    CASE Handler(r) = "genesis" ->
            genesis_checked(WalletGenesis(w, r.arg, r.arg.key))
      [] Handler(r) = "validate" ->
            validate_checked(WalletValidate(w, r.arg))
      [] Handler(r) = "register" ->
            register_checked(WalletRegister(w, r.arg, find_past_key(r.arg.key)))
      [] OTHER ->
            receive_propagated_checked(
                WalletReceivePropagated(w, r.arg, find_past_key(r.arg.key)))

\* no share taken for an invalid message by every handler
no_share_is_error(h) == Err("InvalidMessage", None)

\* what a handler returns when the signing collaborator gives no share
no_share(h) ==
    IF h = "receive_propagated" THEN Err("InvalidMessage", None) ELSE OkNone

\* the event a handler inserts
EventOf(r, i) ==
    CASE Handler(r) = "replay" -> r.events[i]
      [] Handler(r) = "validate" ->
            TransferValidated(r.arg, info.peer_replicas, info.peer_replicas)
      [] Handler(r) = "register" -> TransferRegistered(r.arg)
      [] OTHER -> TransferPropagated(r.arg, info.peer_replicas, info.peer_replicas)

\* the event inserted and nothing given back, as test_validate_transfer does
inserted_not_returned(h, e) == OkNone

\* what a handler returns once its event is inserted
inserted(h, e) ==
    IF h \in {"genesis", "replay"} THEN OkNone ELSE OkSome(e)

(***************************************************************************)
(* The steps of a call.  A call that has returned leaves its result with   *)
(* the caller; req and loaded keep what it was called with and what it     *)
(* read until the process makes its next call.                             *)
(***************************************************************************)
Idle(p) == pc[p] \in {"idle", "done"}

\* a returning handler that keeps the guard of the signing lock
ReleasedWalletOnly(p) ==
    /\ mutex' = [w \in Wallets |-> IF mutex[w] = p THEN NoProc ELSE mutex[w]]
    /\ signing' = signing

\* the guards a returning handler drops
Released(p) ==
    /\ mutex' = [w \in Wallets |-> IF mutex[w] = p THEN NoProc ELSE mutex[w]]
    /\ signing' = IF signing = p THEN NoProc ELSE signing

\* the handler of p returns result
Returns(p, result) ==
    /\ pc' = [pc EXCEPT ![p] = "done"]
    /\ ret' = [ret EXCEPT ![p] = result]
    /\ idx' = [idx EXCEPT ![p] = 0]

\* the request of a command: initiate([]) makes the genesis credit proof
\* for the wallet of the section key
Called(c) ==
    IF Handler(c) = "genesis"
    THEN Request(c.op, info.peer_replicas,
                 get_genesis(GenesisBalance, info.peer_replicas), <<>>)
    ELSE c

\* command c is called by p: it runs up to load_key_lock(id).await?
Call(p, c) ==
    /\ Idle(p)
    /\ calls < MaxCalls
    /\ calls' = calls + 1
    /\ req' = [req EXCEPT ![p] = Called(c)]
    /\ loaded' = [loaded EXCEPT ![p] = <<>>]
    /\ IF Handler(c) = "replay"
       THEN /\ pc' = [pc EXCEPT ![p] = "next"]
            /\ idx' = [idx EXCEPT ![p] = 1]
            /\ ret' = [ret EXCEPT ![p] = NoResult]
       ELSE IF load_key_lock(Called(c).id) = "Ok"
       THEN /\ pc' = [pc EXCEPT ![p] = "lock"]
            /\ idx' = [idx EXCEPT ![p] = 0]
            /\ ret' = [ret EXCEPT ![p] = NoResult]
       ELSE Returns(p, Err(load_key_lock(Called(c).id), None))
    /\ over' = {s \in over : p \notin s}
                \cup {{p, q} : q \in {r \in Procs \ {p} : ~Idle(r)}}
    /\ UNCHANGED <<locks, mutex, signing, info, stores, log, personas>>

Start(p) == \E c \in Commands : Call(p, c)

\* initiate, at an event of the slice: its wallet, then load_key_lock(id).await?
InitiateNext(p) ==
    /\ pc[p] = "next"
    /\ LET e == req[p].events[idx[p]]
       IN  IF e.type = "KnownGroupAdded"
           THEN /\ Returns(p, Panic)
                /\ UNCHANGED <<req, loaded>>
           ELSE /\ req' = [req EXCEPT ![p].id = EventWallet(e)]
                /\ IF load_key_lock(EventWallet(e)) = "Ok"
                   THEN /\ pc' = [pc EXCEPT ![p] = "lock"]
                        /\ UNCHANGED <<ret, idx, loaded>>
                   ELSE /\ Returns(p, Err(load_key_lock(EventWallet(e)), None))
                        /\ UNCHANGED loaded
    /\ UNCHANGED <<locks, mutex, signing, info, stores, log, calls, over, personas>>

\* key_lock.lock().await, then load_wallet and the wallet's check of the
\* request (initiate checks nothing)
Lock(p) ==
    /\ pc[p] = "lock"
    /\ LockFree(req[p].id)
    /\ IF Handler(req[p]) = "replay"
       THEN /\ mutex' = [mutex EXCEPT ![req[p].id] = p]
            /\ pc' = [pc EXCEPT ![p] = "insert"]
            /\ UNCHANGED <<req, idx, loaded, ret>>
       ELSE LET events == log[req[p].id]
                w == load_wallet(req[p].id, events)
                to == IF w.ok THEN Checked(req[p], w)
                      ELSE Return(Err("NetworkData", "History"))
            IN  IF to.pc = "done"
                THEN /\ Returns(p, to.ret)
                     /\ loaded' = [loaded EXCEPT ![p] = events]
                     /\ UNCHANGED <<mutex, req>>
                ELSE /\ mutex' = [mutex EXCEPT ![req[p].id] = p]
                     /\ pc' = [pc EXCEPT ![p] = to.pc]
                     /\ loaded' = [loaded EXCEPT ![p] = events]
                     /\ UNCHANGED <<req, idx, ret>>
    /\ UNCHANGED <<locks, signing, info, stores, log, calls, over, personas>>

\* info.signing.lock().await.sign_..(..)?: a share, no share, or an error;
\* with a share the guard of the signing lock lives on to the end of the
\* if-let, over try_insert
Sign(p) ==
    /\ pc[p] = "sign"
    /\ SigningFree
    /\ \E share \in {"Some", "None", "Err"} :
        IF share = "Some"
        THEN /\ signing' = p
             /\ pc' = [pc EXCEPT ![p] = "insert"]
             /\ UNCHANGED <<mutex, req, idx, loaded, ret>>
        ELSE /\ Returns(p, IF share = "None" THEN no_share(Handler(req[p]))
                           ELSE Err("Signing", None))
             /\ Released(p)
             /\ UNCHANGED <<req, loaded>>
    /\ UNCHANGED <<locks, info, stores, log, calls, over, personas>>

\* store.try_insert(event)?: the event is appended or the store fails; the
\* handler returns (initiate goes on with the slice) and its guards drop
Insert(p) ==
    /\ pc[p] = "insert"
    /\ \E stored \in BOOLEAN :
        LET e == EventOf(req[p], idx[p])
        IN  IF ~stored
            THEN /\ log' = log
                 /\ Returns(p, Err("Store", None))
            ELSE /\ log' = [log EXCEPT ![req[p].id] = Append(@, e)]
                 /\ IF Handler(req[p]) = "replay" /\ idx[p] < Len(req[p].events)
                    THEN /\ pc' = [pc EXCEPT ![p] = "next"]
                         /\ idx' = [idx EXCEPT ![p] = @ + 1]
                         /\ ret' = ret
                    ELSE Returns(p, inserted(Handler(req[p]), e))
    /\ Released(p)
    /\ UNCHANGED <<req, loaded>>
    /\ UNCHANGED <<locks, info, stores, calls, over, personas>>

(***************************************************************************)
(* Queries: each opens the store it reads, takes no lock, and returns.     *)
(***************************************************************************)
\* TransferStore::new(id, root_dir, Init::Load), else Init::New: the store is
\* there afterwards
Open(id) == stores \cup {id}

\* history(id): store.get_all()
history(id) == log[id]

\* balance(id): the balance of the wallet replayed from the store, or the
\* error of the replay
balance(id) ==
    IF load_wallet(id, log[id]).ok
    THEN Result("Some", None, None, <<>>, load_wallet(id, log[id]).balance)
    ELSE Err("NetworkData", "History")

\* the orders in which a HashMap may give the keys of locks
KeyOrders ==
    { o \in [1..Cardinality(locks) -> locks] :
        \A i, j \in 1..Cardinality(locks) : o[i] = o[j] => i = j }

RECURSIVE Flatten(_, _)
Flatten(order, i) ==
    IF i > Len(order) THEN <<>>
    ELSE (IF order[i] \in stores THEN log[order[i]] ELSE <<>>) \o Flatten(order, i + 1)

\* all_events(): the events of the stores of locks that load, in one of the
\* orders of the keys
all_events == { Flatten(o, 1) : o \in KeyOrders }

\* history(id) or balance(id) is called
Query ==
    /\ calls < MaxCalls
    /\ calls' = calls + 1
    /\ \E id \in Wallets : stores' = Open(id)
    /\ UNCHANGED <<locks, mutex, signing, info, log, pc, req, idx, loaded, ret, over,
                   personas>>

\* update_replica_keys called while another call is under way
UpdateReplicaKeysInFlight ==
    /\ \E i \in Infos \ {info} : info' = i
    /\ UNCHANGED <<locks, mutex, signing, stores, log, pc, req, idx, loaded, ret,
                   calls, over, personas>>

\* update_replica_keys(&mut self, info): no other call borrows the replica
UpdateReplicaKeys ==
    /\ \A p \in Procs : Idle(p)
    /\ \E i \in Infos \ {info} : info' = i
    /\ UNCHANGED <<locks, mutex, signing, stores, log, pc, req, idx, loaded, ret,
                   calls, over, personas>>

(***************************************************************************)
(* Specifications.                                                         *)
(***************************************************************************)
\* From Replicas::new no process gets past load_key_lock (NoLockTaken), so
\* Lock, Sign and Insert take no step and are left out of Next.
Next ==
    \/ \E p \in Procs : Start(p)
    \/ \E p \in Procs : InitiateNext(p)
    \/ Query
    \/ UpdateReplicaKeys

Spec == Init /\ [][Next]_vars

NextCustody ==
    \/ Next
    \/ \E p \in Procs : Lock(p)
    \/ \E p \in Procs : Sign(p)
    \/ \E p \in Procs : Insert(p)

\* the replica with the wallets of Custodied in locks
SpecCustody == InitCustody /\ [][NextCustody]_vars

\* every call under way is polled again: an await that can complete does so
Polled ==
    \A p \in Procs :
        /\ WF_vars(InitiateNext(p))
        /\ WF_vars(Lock(p))
        /\ WF_vars(Sign(p))
        /\ WF_vars(Insert(p))

\* calls that contend for the locks: one of each handler at the genesis
\* wallet, a replay over two wallets, and calls at a second wallet and at
\* one that has no lock
ContendingCommands ==
    { c \in Commands :
        \/ /\ c.op = "initiate"
           /\ \/ c.events = <<>>
              \/ Len(c.events) = 3 /\ c.events[1].type = "TransferValidated"
        \/ /\ c.op \in {"validate", "register", "receive_propagated"}
           /\ c.arg.sig /\ c.arg.key \in {None, "K1"}
           /\ FirstDebit(c.arg.debit)
           /\ c.arg.debit.sender = "K1" \/ c.op = "validate" }

\* a contending command is called by p
StartContending(p) == \E c \in ContendingCommands : Call(p, c)

NextContending ==
    \/ \E p \in Procs : StartContending(p)
    \/ \E p \in Procs : InitiateNext(p)
    \/ \E p \in Procs : Lock(p)
    \/ \E p \in Procs : Sign(p)
    \/ \E p \in Procs : Insert(p)

\* the replica with the wallets of Custodied in locks, its calls driven by a
\* fair executor
SpecContending == InitCustody /\ [][NextContending]_vars /\ Polled

(***************************************************************************)
(* An Account under a sequence of put_data and delete_data calls, as in    *)
(* the tests account_ok and account_err.                                   *)
(***************************************************************************)
\* account.put_data(size)
PutData ==
    /\ ops < MaxOps /\ answer.result # "Panic"
    /\ \E size \in Sizes, checks \in BOOLEAN :
        LET left == put_data(account, size, checks)
        IN  /\ account' = left.account
            /\ answer' = Answer("put_data", size, left.result)
    /\ ops' = ops + 1
    /\ UNCHANGED <<replica, manager, peer, mail>>

\* account.delete_data(size)
DeleteData ==
    /\ ops < MaxOps /\ answer.result # "Panic"
    /\ \E size \in Sizes, checks \in BOOLEAN :
        LET left == delete_data(account, size, checks)
        IN  /\ account' = left.account
            /\ answer' = Answer("delete_data", size, left.result)
    /\ ops' = ops + 1
    /\ UNCHANGED <<replica, manager, peer, mail>>

NextAccount ==
    \/ PutData
    \/ DeleteData

SpecAccount == Init /\ [][NextAccount]_vars

(***************************************************************************)
(* The handlers of the maid manager, called one at a time (&mut self).     *)
(***************************************************************************)
\* the handler returns and leaves outcome
LeavesTold(op, request, id, outcome, group) ==
    /\ ops < MaxOps /\ handled.result # "Panic"
    /\ ops' = ops + 1
    /\ accounts' = outcome.accounts
    /\ request_cache' = outcome.request_cache
    /\ routing' = routing \o outcome.sent
    /\ handled' = Handled(op, request, id, outcome.result, accounts, group)
    /\ UNCHANGED <<replica, account, answer, peer, mail>>

Leaves(op, request, id, outcome) ==
    LeavesTold(op, request, id, outcome, NoGroups)

HandlePut ==
    \E request \in PutRequests, checks \in BOOLEAN :
        Leaves("handle_put", request, request.id, handle_put(request, checks))

HandlePutSuccess ==
    \E id \in MessageIds :
        Leaves("handle_put_success", NoRequestMessage, id, handle_put_success(id))

HandlePutFailure ==
    \E id \in MessageIds, bytes \in Indicators, checks \in BOOLEAN :
        Leaves("handle_put_failure", NoRequestMessage, id,
               handle_put_failure(id, bytes, checks))

\* pub fn handle_refresh
HandleRefresh ==
    \E name \in Clients, held \in RefreshAccounts :
        Leaves("handle_refresh", NoRequestMessage, None,
               Effect(handle_refresh(accounts, name, held), request_cache, <<>>, "Unit"))

\* pub fn handle_churn, called after the routing table changed
HandleChurn ==
    \E group \in [DOMAIN accounts -> CloseGroups] :
        \E order \in NameOrders(DOMAIN accounts) :
            LeavesTold("handle_churn", NoRequestMessage, None,
                       handle_churn(accounts, request_cache, group, order), group)

\* an entry that passes its time to live is answered with a put failure
ExpireNotifying ==
    /\ \E id \in DOMAIN request_cache :
        /\ request_cache' = MapRemove(request_cache, id)
        /\ routing' = Append(routing,
               reply_with_put_failure(request_cache[id], id, "NoSuchData"))
    /\ UNCHANGED <<replica, account, answer, ops, accounts, handled, peer, mail>>

\* an entry of request_cache passes its time to live
Expire ==
    /\ \E id \in DOMAIN request_cache : request_cache' = MapRemove(request_cache, id)
    /\ UNCHANGED <<replica, account, answer, ops, accounts, routing, handled, peer, mail>>

\* a refresh request handed to the routing node reaches the second manager
\* of the group, which calls handle_refresh with the name and the account
\* it carries; requests are delivered in any order
Deliver ==
    /\ \E i \in (1..Len(routing)) \ peer.taken :
        /\ routing[i].type = "Refresh"
        /\ LET refresh == deserialise(routing[i].bytes)
           IN  peer' = Peer(handle_refresh(peer.accounts, refresh[1], refresh[2]),
                            peer.taken \cup {i},
                            MapInsert(peer.given, refresh[1], i))
    /\ UNCHANGED <<replica, account, answer, ops, manager, mail>>

(***************************************************************************)
(* A MailBox under a sequence of put and remove calls.                     *)
(***************************************************************************)
\* mail_box.put(size, entry, &None), as put_into_inbox and put_into_outbox
\* call it
MailPut ==
    /\ ops < MaxOps /\ mail.answer.result # "Panic"
    /\ \E size \in MailSizes, entry \in Entries, checks \in BOOLEAN :
        LET left == MailBox_put(mail.box, size, entry, None, checks)
        IN  mail' = Mail(left.box,
                         IF entry \in DOMAIN left.box.mail_box
                               /\ entry \notin DOMAIN mail.box.mail_box
                         THEN MapInsert(mail.sizes, entry, size) ELSE mail.sizes,
                         MailAnswer("put", size, entry, left.result))
    /\ ops' = ops + 1
    /\ UNCHANGED <<replica, account, answer, manager, peer>>

\* mail_box.remove(size, entry): a recorded entry is removed with the size it
\* was put with
MailRemove ==
    /\ ops < MaxOps /\ mail.answer.result # "Panic"
    /\ \E entry \in Entries, checks \in BOOLEAN :
        \E size \in IF entry \in DOMAIN mail.sizes THEN {mail.sizes[entry]}
                     ELSE MailSizes :
        LET left == MailBox_remove(mail.box, size, entry, checks)
        IN  mail' = Mail(left.box,
                         IF entry \in DOMAIN left.box.mail_box THEN mail.sizes
                         ELSE MapRemove(mail.sizes, entry),
                         MailAnswer("remove", size, entry, left.result))
    /\ ops' = ops + 1
    /\ UNCHANGED <<replica, account, answer, manager, peer>>

NextMailBox ==
    \/ MailPut
    \/ MailRemove

SpecMailBox == Init /\ [][NextMailBox]_vars

NextMaid ==
    \/ HandlePut
    \/ HandlePutSuccess
    \/ HandlePutFailure
    \/ HandleRefresh
    \/ HandleChurn
    \/ Expire

SpecMaid == Init /\ [][NextMaid]_vars

\* accounts handed from one manager to another at churn
NextHandOff ==
    \/ HandleRefresh
    \/ HandleChurn
    \/ Deliver

SpecHandOff == Init /\ [][NextHandOff]_vars

(***************************************************************************)
(* Properties.                                                             *)
(***************************************************************************)
\* p is between key_lock.lock().await and the drop of the guard
Holding(p) == pc[p] \in {"sign", "insert"}

\* p holds the lock of wallet w and nothing was appended to w since p read it
Serialised(p, w) ==
    /\ mutex[w] = p
    /\ \A q \in Procs \ {p} : Holding(q) => req[q].id # w
    /\ Handler(req[p]) # "replay" => log[w] = loaded[p]

\* a step appends to w only by the process that holds the lock of w, and
\* the step gives the lock up
AppendsUnderLock(w) ==
    log'[w] # log[w] =>
        \E p \in Procs :
            /\ mutex[w] = p /\ pc[p] = "insert" /\ req[p].id = w
            /\ mutex'[w] = NoProc

\* a step takes a process past lock().await on w only when the lock is free
ReadsUnderLock(p) ==
    (pc[p] = "lock" /\ pc'[p] # "lock") => mutex[req[p].id] = NoProc

\* C1: per wallet at most one mutating operation is between its history
\* load and its append; the operation holds the wallet lock over the whole
\* span (load, replay, verify, sign, append), the log it read is the log it
\* appends to, and no other operation reads or appends to that wallet until
\* the lock is released.
C1_WalletMutualExclusion ==
    /\ [](\A p \in Procs : Holding(p) => Serialised(p, req[p].id))
    /\ [][ /\ \A w \in Wallets : AppendsUnderLock(w)
           /\ \A p \in Procs : ReadsUnderLock(p) ]_vars

\* an operation holds a wallet through signing to its append while a second
\* operation on the same wallet waits for the lock
C1_SecondOperationWaits ==
    \E p, q \in Procs :
        /\ p # q
        /\ pc[p] = "insert" /\ signing = p
        /\ pc[q] = "lock" /\ req[q].id = req[p].id

IsPrefix(s, t) == Len(s) <= Len(t) /\ SubSeq(t, 1, Len(s)) = s

\* Err(Error::NetworkData(e)): the error of the wallet's validation
ValidationError(r) == r.kind = "Err" /\ r.err = "NetworkData"

\* the latest calls of p and q ran at the same time
Concurrent(p, q) == {p, q} \in over

\* p and q have returned from concurrent validate calls for one wallet of
\* locks, with debits at one version; p read the history first
ValidatePair(p, q) ==
    /\ p # q /\ Concurrent(p, q)
    /\ pc[p] = "done" /\ pc[q] = "done"
    /\ Handler(req[p]) = "validate" /\ Handler(req[q]) = "validate"
    /\ req[p].id = req[q].id /\ req[p].id \in locks
    /\ req[p].arg.debit.counter = req[q].arg.debit.counter
    /\ IsPrefix(loaded[p], loaded[q])

\* both debits are at the next expected version of the history read first,
\* owner-signed and within its balance
Admissible(p, q) ==
    LET w == load_wallet(req[p].id, loaded[p])
    IN  /\ w.ok
        /\ WalletValidate(w, req[p].arg) = "Ok"
        /\ WalletValidate(w, req[q].arg) = "Ok"

\* the call of p was not let down by the signing collaborator or the store:
\* it returned an event or the error of the validation
Signed(p) == ret[p].kind = "Some" \/ ValidationError(ret[p])

ExactlyOneValidated(p, q) ==
    \/ ret[p].kind = "Some" /\ ValidationError(ret[q])
    \/ ret[q].kind = "Some" /\ ValidationError(ret[p])

\* the TransferValidated events of a log at one version are for one debit
OneDebitPerVersion(events) ==
    \A i, j \in 1..Len(events) :
        ( /\ events[i].type = "TransferValidated"
          /\ events[j].type = "TransferValidated"
          /\ events[i].debit.counter = events[j].debit.counter )
        => events[i].debit = events[j].debit

\* C2: of two concurrent validate calls on one wallet whose debits both carry
\* the wallet's next expected version (admissible debits, signing and store
\* at work), exactly one returns a TransferValidated event and the other
\* fails with a validation error; and no wallet log ever holds two
\* TransferValidated events for two distinct debits at the same version.
C2_OneValidatedPerVersion ==
    /\ \A p, q \in Procs :
          (ValidatePair(p, q) /\ Admissible(p, q) /\ Signed(p) /\ Signed(q))
              => ExactlyOneValidated(p, q)
    /\ \A w \in Wallets : OneDebitPerVersion(log[w])

\* the credit of proof a is recorded in the history events of wallet id
Recorded(id, events, a) ==
    LET w == load_wallet(id, events)
    IN  w.ok /\ CreditId(a.debit) \in w.credits

\* the proof carries a signature that verifies under a key of the chain
Verifies(a) == a.sig /\ find_past_key(a.key) # None

\* a log holds at most one TransferPropagated event per credit identifier
OnePropagatedPerCredit(events) ==
    \A i, j \in 1..Len(events) :
        ( /\ events[i].type = "TransferPropagated"
          /\ events[j].type = "TransferPropagated"
          /\ CreditId(events[i].debit) = CreditId(events[j].debit) )
        => i = j

\* receive_propagated of p reads a history that records the credit of its
\* (verifying) proof
ReadsRecordedCredit(p) ==
    /\ pc[p] = "lock" /\ pc'[p] # "lock"
    /\ Handler(req[p]) = "receive_propagated"
    /\ Verifies(req[p].arg)
    /\ Recorded(req[p].id, log[req[p].id], req[p].arg)

\* C3: credit idempotence: a wallet log holds exactly one TransferPropagated
\* event per credit identifier however often receive_propagated is called
\* with the proof; a call that finds the credit recorded returns None, takes
\* no signature share and appends nothing.
C3_CreditIdempotence ==
    /\ [](\A w \in Wallets : OnePropagatedPerCredit(log[w]))
    /\ [][\A p \in Procs :
            ReadsRecordedCredit(p) =>
                /\ pc'[p] = "done" /\ ret'[p] = OkNone
                /\ signing' = signing /\ log' = log]_vars

\* the events of one type, in append order
OfType(events, type) == SelectSeq(events, LAMBDA e : e.type = type)

\* C4: in every wallet log the TransferRegistered events, read in append
\* order, carry debit versions that go up by exactly one from each to the
\* next: no gap and no repeat, whatever calls were made.
C4_RegisteredVersionsConsecutive ==
    \A w \in Wallets :
        LET regs == OfType(log[w], "TransferRegistered")
        IN  \A k \in 2..Len(regs) :
                regs[k].debit.counter = regs[k - 1].debit.counter + 1

RECURSIVE Total(_)
Total(events) ==
    IF events = <<>> THEN Zero
    ELSE MoneyPlus(Head(events).debit.amount, Total(Tail(events)))

\* the sum of the credits of a log, and of its registered debits
Credited(events) == Total(OfType(events, "TransferPropagated"))

Debited(events) == Total(OfType(events, "TransferRegistered"))

\* C5: for every wallet the registered debits of its log never exceed its
\* credits (the balance is never negative), and balance(id) is the sum of
\* the TransferPropagated amounts minus the sum of the TransferRegistered
\* amounts, whatever calls (initiate included) were made.
C5_BalanceIsCreditsMinusDebits ==
    \A w \in Wallets :
        /\ MoneyLeq(Debited(log[w]), Credited(log[w]))
        /\ balance(w).kind = "Some"
        /\ MoneyPlus(balance(w).money, Debited(log[w])) = Credited(log[w])

\* what the handlers verify before they append: the owner's signature of a
\* validated debit, the proof of the genesis credit under its own key, and
\* the proof of any other event under a section key
Verified(e) ==
    IF e.type = "TransferValidated" THEN e.sig
    ELSE IF e.debit.sender = "Genesis" THEN e.sig /\ e.key = GenesisKey
    ELSE e.sig /\ e.key \in SectionKeys

\* C6: every event of every wallet log (hence of all_events()) was verified
\* before it was appended, its proof under a section key of the proof
\* chain; no operation, initiate included, appends an unverified event.
C6_EveryEventVerified ==
    \A w \in Wallets : \A i \in 1..Len(log[w]) : Verified(log[w][i])

\* the call of p is at a wallet that has no lock in locks
NotCustodied(p) == req[p].id \in Wallets \ locks

C8_GenesisOnFreshReplica ==
    \A p \in Procs :
        (calls = 1 /\ pc[p] = "done" /\ Handler(req[p]) = "genesis") =>
            /\ ret[p] = OkNone
            /\ Len(history(req[p].id)) = 1
            /\ history(req[p].id)[1].type = "TransferPropagated"
            /\ history(req[p].id)[1].debit.amount = <<4, 294967295, 0>>
            /\ balance(req[p].id).kind = "Some"
            /\ balance(req[p].id).money = <<4, 294967295, 0>>

\* validate of p takes the lock of a wallet whose history replays and whose
\* check of the transfer fails: the version is not the next expected, the
\* amount is above the balance or the owner's signature does not verify
ValidateFails(p, events) ==
    /\ Handler(req[p]) = "validate"
    /\ req[p].id \in locks
    /\ load_wallet(req[p].id, events).ok
    /\ WalletValidate(load_wallet(req[p].id, events), req[p].arg)
           \in {"OutOfOrder", "InsufficientBalance", "InvalidSignature"}

\* C9: validate on a transfer whose preconditions fail returns the
\* validation error, takes no signature share and leaves the log (hence
\* the balance) as it was; so a second debit at a registered version is
\* rejected.
C9_FailedValidateChangesNothing ==
    /\ [](\A p \in Procs :
            (pc[p] = "done" /\ ValidateFails(p, loaded[p])) =>
                ret[p] = Err("NetworkData",
                             WalletValidate(load_wallet(req[p].id, loaded[p]), req[p].arg)))
    /\ [][\A p \in Procs :
            (pc[p] = "lock" /\ pc'[p] # "lock" /\ ValidateFails(p, log[req[p].id])) =>
                /\ pc'[p] = "done" /\ ValidationError(ret'[p])
                /\ log' = log /\ signing' = signing /\ mutex' = mutex]_vars

\* a debit at a version the history already holds a registered debit of,
\* for another amount, was rejected as out of order and the log is as read
C9_SecondDebitAtRegisteredVersion ==
    \E p \in Procs :
        /\ pc[p] = "done" /\ ValidateFails(p, loaded[p])
        /\ ret[p] = Err("NetworkData", "OutOfOrder")
        /\ log[req[p].id] = loaded[p]
        /\ \E i \in 1..Len(loaded[p]) :
              /\ loaded[p][i].type = "TransferRegistered"
              /\ loaded[p][i].debit.counter = req[p].arg.debit.counter
              /\ loaded[p][i].debit # req[p].arg.debit

\* validate of p read a history against which its transfer validates
ValidatePasses(p) ==
    /\ Handler(req[p]) = "validate"
    /\ load_wallet(req[p].id, loaded[p]).ok
    /\ WalletValidate(load_wallet(req[p].id, loaded[p]), req[p].arg) = "Ok"

\* C10: validate on a transfer whose preconditions hold, when sign_transfer
\* yields no shares (the signing step ends the call without a signing
\* error), returns None and leaves every wallet log unchanged.
C10_NoShareReturnsNone ==
    [][\A p \in Procs :
        ( /\ pc[p] = "sign" /\ ValidatePasses(p)
          /\ pc'[p] = "done" /\ ret'[p] # Err("Signing", None) ) =>
            (ret'[p] = OkNone /\ log' = log)]_vars

\* a validate call whose transfer validates has returned None and the log
\* is as it read it
C10_ValidatedWithoutShare ==
    \E p \in Procs :
        /\ pc[p] = "done" /\ ValidatePasses(p)
        /\ ret[p] = OkNone
        /\ log[req[p].id] = loaded[p]
        /\ loaded[p] # <<>>

\* validate of p, past validation and with its shares, ends at try_insert
\* without a store error
ValidateInserts(p) ==
    /\ pc[p] = "insert" /\ Handler(req[p]) = "validate"
    /\ pc'[p] = "done" /\ ret'[p] # Err("Store", None)

\* C11: validate on a transfer whose preconditions hold, with shares from
\* the signing collaborator, appends exactly one TransferValidated event to
\* the log of the sender and to no other log; the event carries the
\* submitted transfer and the shares of this replica, and the event
\* returned is the event appended.
C11_ValidateAppendsWhatItReturns ==
    [][\A p \in Procs :
        ValidateInserts(p) =>
            LET e == TransferValidated(req[p].arg, info.peer_replicas, info.peer_replicas)
            IN  /\ ValidatePasses(p) /\ signing = p
                /\ e.debit = req[p].arg.debit /\ e.sig /\ e.share # None
                /\ log' = [log EXCEPT ![req[p].arg.debit.sender] = Append(loaded[p], e)]
                /\ ret'[p] = OkSome(e)]_vars

\* a validate call has returned the event that now ends the log it read
C11_ValidatedEventInLog ==
    \E p \in Procs :
        /\ pc[p] = "done" /\ ValidatePasses(p)
        /\ ret[p].kind = "Some"
        /\ ret[p].events[1].type = "TransferValidated"
        /\ ret[p].events[1].debit = req[p].arg.debit
        /\ log[req[p].id] = Append(loaded[p], ret[p].events[1])

\* the debit of proof a is registered in the history events of wallet id
Registered(id, events, a) ==
    LET w == load_wallet(id, events)
    IN  w.ok /\ a.debit \in w.debits

\* register of p reads a history in which its (verifying) agreement is
\* registered
ReadsRegisteredAgreement(p) ==
    /\ pc[p] = "lock" /\ pc'[p] # "lock"
    /\ Handler(req[p]) = "register"
    /\ Verifies(req[p].arg)
    /\ Registered(req[p].id, log[req[p].id], req[p].arg)

\* register of p ends at try_insert without a store error
RegisterInserts(p) ==
    /\ pc[p] = "insert" /\ Handler(req[p]) = "register"
    /\ pc'[p] = "done" /\ ret'[p] # Err("Store", None)

ReadsUnknownSectionKey(p) ==
    /\ pc[p] = "lock" /\ pc'[p] # "lock"
    /\ Handler(req[p]) \in {"register", "receive_propagated"}
    /\ load_wallet(req[p].id, log[req[p].id]).ok
    /\ find_past_key(req[p].arg.key) = None

\* C13: register and receive_propagated given a proof whose section key is
\* not in the section proof chain fail with the unknown-section-key error
\* and append nothing; find_past_key gives back a key of the chain at any
\* position of the chain.
C13_UnknownSectionKeySurfaced ==
    /\ [](\A i \in 1..Len(info.section_proof_chain) :
            find_past_key(info.section_proof_chain[i]) = info.section_proof_chain[i])
    /\ [][\A p \in Procs :
            ReadsUnknownSectionKey(p) =>
                /\ pc'[p] = "done" /\ log' = log
                /\ ret'[p].kind = "Err"
                /\ "UnknownSectionKey" \in {ret'[p].err, ret'[p].cause}]_vars

\* handler h of p ends at try_insert and returns its event
HandlerInserts(p, h) ==
    /\ pc[p] = "insert" /\ Handler(req[p]) = h
    /\ pc'[p] = "done" /\ ret'[p].kind = "Some"

\* the agreement p registers is of a debit this replica validated: the log
\* of the sender holds its TransferValidated event
ValidatedHere(p) ==
    \E i \in 1..Len(log[req[p].id]) :
        /\ log[req[p].id][i].type = "TransferValidated"
        /\ log[req[p].id][i].debit = req[p].arg.debit

\* the balance of no wallet but w changes in the step
OtherBalancesKept(w) == \A v \in Wallets \ {w} : balance(v)' = balance(v)

GenesisReturns(p) ==
    /\ Handler(req[p]) = "genesis"
    /\ pc[p] \in {"lock", "sign", "insert"} /\ pc'[p] = "done"

\* genesis of p reads a log that is not empty
GenesisReadsHistory(p) ==
    /\ Handler(req[p]) = "genesis"
    /\ pc[p] = "lock" /\ pc'[p] # "lock"
    /\ log[req[p].id] # <<>>

\* the one event of the genesis credit appended to the empty log of its wallet
GenesisAppended(p) ==
    /\ log[req[p].id] = <<>>
    /\ log' = [log EXCEPT ![req[p].id] =
                   <<TransferPropagated(req[p].arg, info.peer_replicas,
                                        info.peer_replicas)>>]

\* C15 (as stated): genesis reading a log that is not empty fails with an
\* error; a genesis that fails appends nothing, and a genesis that succeeds
\* has appended exactly one TransferPropagated event, the genesis credit, to
\* a log that was empty, so that calls of initiate([]) leave at most one
\* such event in a log.
C15_SuccessfulGenesisAppendsOne ==
    [][\A p \in Procs :
        /\ GenesisReadsHistory(p) => (pc'[p] = "done" /\ ret'[p].kind = "Err")
        /\ GenesisReturns(p) =>
             IF ret'[p].kind = "Err" THEN log' = log ELSE GenesisAppended(p)]_vars

\* C15 (amended): genesis reading a log that is not empty fails with an
\* error; a genesis that fails appends nothing; a genesis that returns
\* Ok(None) has either appended exactly one TransferPropagated event, the
\* genesis credit, to a log that was empty, or was given no signature share
\* and has appended nothing; so calls of initiate([]) leave at most one such
\* event in a log.
C15_GenesisAppendsAtMostOne ==
    [][\A p \in Procs :
        /\ GenesisReadsHistory(p) => (pc'[p] = "done" /\ ret'[p].kind = "Err")
        /\ GenesisReturns(p) =>
             IF ret'[p].kind = "Err" THEN log' = log
             ELSE /\ ret'[p] = OkNone
                  /\ \/ pc[p] = "insert" /\ signing = p /\ GenesisAppended(p)
                     \/ pc[p] = "sign" /\ log' = log]_vars

\* initiate([]) was called twice: one call appended the genesis credit, the
\* other read the log with it and failed, and the log holds the one event
C15_SecondGenesisFails ==
    \E p, q \in Procs :
        /\ p # q /\ pc[p] = "done" /\ pc[q] = "done"
        /\ Handler(req[p]) = "genesis" /\ req[q] = req[p]
        /\ ret[p] = OkNone /\ loaded[p] = <<>>
        /\ ret[q] = Err("InvalidMessage", None)
        /\ loaded[q] = <<TransferPropagated(req[p].arg, info.peer_replicas,
                                            info.peer_replicas)>>
        /\ log[req[p].id] = loaded[q]

\* the next await of q completes without a step of another operation
Unhindered(q) ==
    /\ pc[q] = "lock" => LockFree(req[q].id)
    /\ pc[q] = "sign" => SigningFree

\* C16: operations on distinct wallets do not contend: while an operation
\* holds the lock of a wallet, up to the end of its append, an operation on
\* another wallet can take each of its steps (lock and load, verify, sign,
\* append) without the first taking a step.
C16_DistinctWalletsDoNotContend ==
    \A p, q \in Procs :
        (/\ p # q /\ Holding(p)
         /\ pc[q] \in {"lock", "sign", "insert"}
         /\ req[q].id # req[p].id) => Unhindered(q)

\* the call of p returns an error in the step
ReturnsError(p) ==
    /\ pc[p] \in {"next", "lock", "sign", "insert"}
    /\ pc'[p] = "done" /\ ret'[p].kind = "Err"

\* C17: mutations are all-or-nothing: a call of genesis, initiate, validate,
\* register or receive_propagated that returns an error, a failed store
\* append and a later event of an initiate slice included, has appended
\* nothing: the step that returns the error appends nothing, and no earlier
\* event of the slice is in a log (initiate is at event idx of its slice
\* after appending idx - 1 of them).
C17_ErrorLeavesLogsUntouched ==
    [][\A p \in Procs :
        ReturnsError(p) => (log' = log /\ idx[p] <= 1)]_vars

\* the step is a call of op on account
AccountCall(op) == ops' = ops + 1 /\ answer'.op = op

\* C18: quota invariant: an account made by Account::default keeps
\* data_stored + space_available = 1,073,741,824 after any sequence of
\* put_data and delete_data calls of any sizes, failing calls included, and
\* no addition or subtraction of a call leaves the range of u64.
C18_QuotaInvariant ==
    /\ [](/\ answer.result # "Panic"
          /\ MoneyPlus(account.data_stored, account.space_available)
                = U64(DEFAULT_ACCOUNT_SIZE))
    /\ [][/\ (AccountCall("put_data") /\ answer'.result = "Ok") =>
                /\ CheckedAdd(account.data_stored, answer'.size) # NoMoney
                /\ CheckedSub(account.space_available, answer'.size) # NoMoney
          /\ AccountCall("delete_data") =>
                IF MoneyLeq(answer'.size, account.data_stored)
                THEN /\ CheckedSub(account.data_stored, answer'.size) # NoMoney
                     /\ CheckedAdd(account.space_available, answer'.size) # NoMoney
                ELSE CheckedAdd(account.space_available, account.data_stored)
                        # NoMoney]_vars

\* after two puts and the delete of the first, the account holds one byte
C18_PartlyFilledAfterDelete ==
    /\ ops = 3
    /\ answer = Answer("delete_data", U64(DEFAULT_PAYMENT), "Unit")
    /\ account = Account(U64(1), U64(DEFAULT_ACCOUNT_SIZE - 1))

\* C19: put_data(size) with size above space_available fails with
\* LowBalance and leaves both fields as they were; with size up to
\* space_available it succeeds, data_stored rises by size and
\* space_available falls by size.
C19_PutDataChargesOrRefuses ==
    [][AccountCall("put_data") =>
        IF ~MoneyLeq(answer'.size, account.space_available)
        THEN answer'.result = "LowBalance" /\ account' = account
        ELSE /\ answer'.result = "Ok"
             /\ account'.data_stored = MoneyPlus(account.data_stored, answer'.size)
             /\ MoneyPlus(account'.space_available, answer'.size)
                    = account.space_available]_vars

\* the account filled to the last byte has refused one more byte
\* (account_err)
C19_FullAccountRefusesByte ==
    /\ ops = 2
    /\ answer = Answer("put_data", U64(1), "LowBalance")
    /\ account = Account(U64(DEFAULT_ACCOUNT_SIZE), Zero)

\* handle_put is called with request
PutHandled(request) ==
    /\ ops' = ops + 1
    /\ handled'.op = "handle_put" /\ handled'.request = request

\* a put that does not open an account, from a client that has none
PutWithoutAccount(request) ==
    /\ client_name(request.src) \notin DOMAIN accounts
    /\ \/ request.data.kind = "Immutable"
       \/ request.data.kind = "Structured" /\ request.data.type_tag # 0

\* C20: a put of immutable data, or of structured data with a type tag
\* other than 0, from a client that has no account fails with
\* NoSuchAccount: exactly one message is handed to the routing node, the put
\* failure carrying the request, its message id and the NoSuchAccount error,
\* from the request's destination to its source; no put is forwarded, no
\* account is made and nothing is cached.
C20_PutWithoutAccountFails ==
    [][\A request \in PutRequests :
        (PutHandled(request) /\ PutWithoutAccount(request)) =>
            /\ handled'.result = "NoSuchAccount"
            /\ routing' = Append(routing,
                    Message("PutFailure", request.dst, request.src, request.id,
                            request, NoData, serialise("NoSuchAccount")))
            /\ deserialise(routing'[Len(routing')].bytes) = "NoSuchAccount"
            /\ accounts' = accounts
            /\ request_cache' = request_cache]_vars

\* the first call of the manager was a put of immutable data, refused for
\* want of an account (handle_put_without_account)
C20_RefusedFirstPut ==
    /\ ops = 1 /\ handled.op = "handle_put"
    /\ handled.request.data.kind = "Immutable"
    /\ handled.result = "NoSuchAccount"
    /\ Len(routing) = 1 /\ routing[1].type = "PutFailure"
    /\ routing[1].dst = handled.request.src
    /\ DOMAIN accounts = {} /\ DOMAIN request_cache = {}

\* the put that opens an account: structured data with type tag 0
AccountCreation(request) ==
    request.data.kind = "Structured" /\ request.data.type_tag = 0

\* an account at the default allowance after one payment
ChargedOnce ==
    Account(U64(DEFAULT_PAYMENT), U64(DEFAULT_ACCOUNT_SIZE - DEFAULT_PAYMENT))

\* C21: an account-creation put (structured data, type tag 0) from a client
\* that has an account fails with AccountExists: one put failure with that
\* error goes to the client, the accounts (that of the client included) stay
\* as they were, nothing is forwarded and nothing is cached; from a client
\* that has no account it makes an account at the default allowance, which
\* is then charged one payment, and the put is forwarded and cached.
C21_AccountCreationPut ==
    [][\A request \in PutRequests :
        (PutHandled(request) /\ AccountCreation(request)) =>
            IF client_name(request.src) \in DOMAIN accounts
            THEN /\ handled'.result = "AccountExists"
                 /\ routing' = Append(routing,
                        Message("PutFailure", request.dst, request.src, request.id,
                                request, NoData, serialise("AccountExists")))
                 /\ deserialise(routing'[Len(routing')].bytes) = "AccountExists"
                 /\ accounts' = accounts
                 /\ request_cache' = request_cache
            ELSE /\ handled'.result = "Ok"
                 /\ DOMAIN accounts' = DOMAIN accounts \cup {client_name(request.src)}
                 /\ accounts'[client_name(request.src)] = ChargedOnce
                 /\ \A c \in DOMAIN accounts : accounts'[c] = accounts[c]
                 /\ routing' = Append(routing,
                        Message("PutRequest", request.dst,
                                NaeManager(request.data.name), request.id,
                                NoRequestMessage, request.data, <<>>))
                 /\ DOMAIN request_cache' = DOMAIN request_cache \cup {request.id}
                 /\ request_cache'[request.id] = request]_vars

\* a client opened its account and then sent an account-creation put again:
\* the second is refused and the account is as the first left it
\* (invalid_put_for_previously_created_account)
C21_SecondCreationRefused ==
    /\ ops = 2 /\ handled.op = "handle_put"
    /\ AccountCreation(handled.request)
    /\ handled.result = "AccountExists"
    /\ Len(routing) = 2
    /\ routing[1].type = "PutRequest" /\ routing[2].type = "PutFailure"
    /\ routing[2].dst = handled.request.src
    /\ accounts = [c \in {client_name(handled.request.src)} |-> ChargedOnce]

\* the client of request has an account with room for one payment
CanPay(request) ==
    /\ client_name(request.src) \in DOMAIN accounts
    /\ MoneyLeq(U64(DEFAULT_PAYMENT),
                accounts[client_name(request.src)].space_available)

\* the put of request is charged to its client, forwarded and cached
PutForwarded(request) ==
    LET client == client_name(request.src)
    IN  /\ handled'.result = "Ok"
        /\ DOMAIN accounts' = DOMAIN accounts
        /\ accounts'[client].data_stored
              = MoneyPlus(accounts[client].data_stored, U64(DEFAULT_PAYMENT))
        /\ MoneyPlus(accounts'[client].space_available, U64(DEFAULT_PAYMENT))
              = accounts[client].space_available
        /\ \A c \in DOMAIN accounts \ {client} : accounts'[c] = accounts[c]
        /\ routing' = Append(routing,
               Message("PutRequest", request.dst, NaeManager(request.data.name),
                       request.id, NoRequestMessage, request.data, <<>>))
        /\ DOMAIN request_cache' = DOMAIN request_cache \cup {request.id}
        /\ request_cache'[request.id] = request

\* C22 (as stated): any put from a client whose account has
\* space_available >= 1,048,576 succeeds: the account is charged exactly
\* 1,048,576, one put request with the same data and message id goes from
\* the manager's authority to the data authority named by the datum, no
\* failure is sent, and the request is cached under its message id.
C22_PutWithRoomSucceeds ==
    [][\A request \in PutRequests :
        (PutHandled(request) /\ CanPay(request)) => PutForwarded(request)]_vars

\* data_stored of the client's account can take one payment more within u64
\* (so for every account that began as Account::default)
Chargeable(request) ==
    CheckedAdd(accounts[client_name(request.src)].data_stored,
               U64(DEFAULT_PAYMENT)) # NoMoney

\* C22 (amended): a put other than an account-creation put, from a client
\* whose account has space_available >= 1,048,576 and a data_stored that
\* one payment does not take past u64, succeeds: the account is
\* charged exactly 1,048,576, one put request with the same data and
\* message id goes from the manager's authority to the data authority named
\* by the datum, no failure is sent, and the request is cached under its
\* message id.
C22_OrdinaryPutWithRoomSucceeds ==
    [][\A request \in PutRequests :
        (/\ PutHandled(request) /\ ~AccountCreation(request)
         /\ CanPay(request) /\ Chargeable(request)) => PutForwarded(request)]_vars

\* a client opened its account and then put immutable data: two payments
\* are charged, both puts went on, the second is cached
\* (handle_put_with_account)
C22_SecondPutCharged ==
    /\ ops = 2 /\ handled.op = "handle_put" /\ handled.result = "Ok"
    /\ handled.request.data.kind = "Immutable"
    /\ accounts = [c \in {client_name(handled.request.src)} |->
                     Account(U64(2 * DEFAULT_PAYMENT),
                             U64(DEFAULT_ACCOUNT_SIZE - 2 * DEFAULT_PAYMENT))]
    /\ Len(routing) = 2 /\ routing[2].type = "PutRequest"
    /\ routing[2].data = handled.request.data
    /\ routing[2].dst = NaeManager(handled.request.data.name)
    /\ request_cache[handled.request.id] = handled.request

\* handler op is called for message id
ReplyHandled(op, id) ==
    /\ ops' = ops + 1
    /\ handled'.op = op /\ handled'.id = id

\* C23: put_success for a message id with a cached request removes that
\* entry, hands the routing node exactly one success response for the
\* request's client (from the request's destination to its source, with the
\* message id and the digest of the serialised request) and leaves the
\* accounts alone; for an id with no cached entry, such as one already
\* answered, it fails with the cached-request-missing error for that id,
\* sends nothing and changes nothing.
C23_PutSuccessAnswersOnce ==
    [][\A id \in MessageIds :
        ReplyHandled("handle_put_success", id) =>
            IF id \in DOMAIN request_cache
            THEN /\ handled'.result = "Ok"
                 /\ request_cache' = MapRemove(request_cache, id)
                 /\ id \notin DOMAIN request_cache'
                 /\ routing' = Append(routing,
                        Message("PutSuccess", request_cache[id].dst,
                                request_cache[id].src, id, NoRequestMessage,
                                NoData, hash(serialise(request_cache[id]))))
                 /\ accounts' = accounts
            ELSE /\ handled'.result = "FailedToFindCachedRequest"
                 /\ routing' = routing
                 /\ accounts' = accounts
                 /\ request_cache' = request_cache]_vars

\* a put was answered with put_success, and a second put_success for its
\* id found nothing: one request forwarded, one success sent, cache empty
C23_SecondSuccessFindsNothing ==
    /\ ops = 3 /\ handled.op = "handle_put_success"
    /\ handled.result = "FailedToFindCachedRequest"
    /\ Len(routing) = 2
    /\ routing[1].type = "PutRequest" /\ routing[2].type = "PutSuccess"
    /\ routing[2].id = handled.id /\ routing[1].id = handled.id
    /\ DOMAIN request_cache = {}

\* the latest call was the put with message id, it succeeded, and the
\* account it charged could take the payment within u64
PutJustMade(id) ==
    /\ handled.op = "handle_put" /\ handled.result = "Ok"
    /\ handled.request.id = id
    /\ LET client == client_name(handled.request.src)
       IN  client \in DOMAIN handled.found =>
               CheckedAdd(handled.found[client].data_stored,
                          U64(DEFAULT_PAYMENT)) # NoMoney

\* the account of client as the latest call found it (as opened, if the
\* call opened it)
FoundAccount(client) ==
    IF client \in DOMAIN handled.found THEN handled.found[client]
    ELSE AccountDefault

\* C24: quota refund: put_failure for the message id of a put that has just
\* succeeded leaves the client's account with the data_stored and
\* space_available it had before the put, removes the cache entry and hands
\* the routing node exactly one failure response for the client, with the
\* request, the message id and the error indicator; put_failure for an id
\* with no cached entry fails with the cached-request-missing error and
\* changes nothing.
C24_PutFailureRefunds ==
    [][\A id \in MessageIds :
        ReplyHandled("handle_put_failure", id) =>
            IF id \in DOMAIN request_cache
            THEN PutJustMade(id) =>
                    LET request == request_cache[id]
                        client == client_name(request.src)
                    IN  /\ accounts' = MapInsert(accounts, client, FoundAccount(client))
                        /\ request_cache' = MapRemove(request_cache, id)
                        /\ \E bytes \in Indicators :
                              routing' = Append(routing,
                                  Message("PutFailure", request.dst, request.src,
                                          id, request, NoData, bytes))
            ELSE /\ handled'.result = "FailedToFindCachedRequest"
                 /\ routing' = routing
                 /\ accounts' = accounts
                 /\ request_cache' = request_cache]_vars

\* an entry of the cache passes its time to live: it leaves the cache
\* without a call of a handler
Expires(id) ==
    /\ ops' = ops
    /\ id \in DOMAIN request_cache /\ id \notin DOMAIN request_cache'

\* C25: cache expiry: a cached request past its time to live is no longer
\* found, and its expiry refunds nothing and answers no one; a put_success
\* or put_failure for a message id that is not cached fails with the
\* cached-request-missing error, sends no response and (put_failure)
\* refunds nothing, so that the payment charged at the put stays on the
\* account.
C25_ExpiredRequestNotAnswered ==
    [][\A id \in MessageIds :
        /\ Expires(id) =>
              /\ request_cache' = MapRemove(request_cache, id)
              /\ accounts' = accounts /\ routing' = routing
        /\ (/\ id \notin DOMAIN request_cache
            /\ \/ ReplyHandled("handle_put_success", id)
               \/ ReplyHandled("handle_put_failure", id)) =>
              /\ handled'.result = "FailedToFindCachedRequest"
              /\ accounts' = accounts /\ routing' = routing
              /\ request_cache' = request_cache]_vars

\* a client opened its account with a put, the cached request expired, and
\* the put_failure that came for it found nothing: the payment is still
\* charged and nothing but the put request was sent
C25_FailureAfterExpiry ==
    /\ ops = 2 /\ handled.op = "handle_put_failure"
    /\ handled.result = "FailedToFindCachedRequest"
    /\ Len(routing) = 1 /\ routing[1].type = "PutRequest"
    /\ routing[1].id = handled.id
    /\ DOMAIN request_cache = {}
    /\ \E c \in Clients : accounts = [d \in {c} |-> ChargedOnce]

\* the messages sent by the step
Sent == SubSeq(routing', Len(routing) + 1, Len(routing'))

\* C26: after handle_churn the accounts are exactly the previous accounts
\* for whose name close_group answered with a group, each with its
\* contents unchanged; exactly one refresh request carrying the account is
\* sent for each of them, from and to the ClientManager authority of its
\* name, and none for an account that is dropped (close_group answered
\* with no group or with an error); the request cache is unchanged.
C26_ChurnKeepsCloseAccounts ==
    [][(ops' = ops + 1 /\ handled'.op = "handle_churn") =>
        LET group == handled'.group
            kept == {c \in DOMAIN accounts : group[c] = "Some"}
        IN  /\ DOMAIN group = DOMAIN accounts
            /\ accounts' = [c \in kept |-> accounts[c]]
            /\ request_cache' = request_cache
            /\ Len(routing') >= Len(routing)
            /\ SubSeq(routing', 1, Len(routing)) = routing
            /\ Len(Sent) = Cardinality(kept)
            /\ \A c \in kept :
                \E i \in 1..Len(Sent) :
                    /\ Sent[i].type = "Refresh"
                    /\ Sent[i].src = ClientManager(c)
                    /\ Sent[i].dst = ClientManager(c)
                    /\ deserialise(Sent[i].bytes) = <<c, accounts[c]>>]_vars

\* a churn that kept one account and dropped another for an error of
\* close_group
C26_ChurnDroppedOnError ==
    /\ handled.op = "handle_churn"
    /\ \E c, d \in Clients :
        /\ {c, d} \subseteq DOMAIN handled.group
        /\ handled.group[c] = "Some" /\ handled.group[d] = "Err"
        /\ DOMAIN accounts = {c}
        /\ accounts[c] = handled.found[c]
        /\ routing[Len(routing)].type = "Refresh"
        /\ routing[Len(routing)].src = ClientManager(c)

\* the positions in routing of the refresh requests of a churn that was the
\* latest call: one for each account kept
LatestRefreshes == (Len(routing) - Cardinality(DOMAIN accounts) + 1)..Len(routing)

\* the latest call was a churn, and every refresh it sent was delivered
HandedOff ==
    /\ handled.op = "handle_churn"
    /\ LatestRefreshes \subseteq peer.taken

\* the second manager holds no account but those the latest churn gave it
OnlyHandedOff ==
    \A c \in DOMAIN peer.accounts : peer.given[c] \in LatestRefreshes

\* a delivery of the refresh at position i of routing
Delivered(i) == i \in peer'.taken \ peer.taken

\* C27 as stated: when the sender ran churn and every refresh it sent was
\* delivered to a receiving manager, the receiver's accounts are exactly
\* the accounts the sender kept, with the same data_stored and
\* space_available.
C27_HandOffExact == HandedOff => peer.accounts = accounts

\* C27: when the sender ran churn and every refresh it sent was delivered
\* to a receiving manager that holds no account from elsewhere, the
\* receiver's accounts are exactly the accounts the sender kept, with the
\* same data_stored and space_available; a refresh for a name overwrites
\* the account stored under that name and changes no other account.
C27_HandOffToFreshReceiver ==
    /\ [](HandedOff /\ OnlyHandedOff => peer.accounts = accounts)
    /\ [][\A i \in 1..Len(routing) :
            Delivered(i) =>
                LET refresh == deserialise(routing[i].bytes)
                IN  /\ refresh[1] \in DOMAIN peer'.accounts
                    /\ peer'.accounts[refresh[1]] = refresh[2]
                    /\ \A c \in DOMAIN peer.accounts \ {refresh[1]} :
                          /\ c \in DOMAIN peer'.accounts
                          /\ peer'.accounts[c] = peer.accounts[c]
                    /\ DOMAIN peer'.accounts = DOMAIN peer.accounts \cup {refresh[1]}]_vars

\* two churns of the sender each handed the account of a client over, with
\* different contents; the receiver holds what the second gave
C27_SecondHandOffOverwrote ==
    /\ HandedOff /\ OnlyHandedOff
    /\ peer.taken = {1, 2}
    /\ routing[1].bytes # routing[2].bytes
    /\ DOMAIN accounts # {} /\ peer.accounts = accounts

\* C28: in genesis, validate and receive_propagated the signing lock is
\* taken only while the wallet's lock is held, and it is released before
\* store.try_insert appends the event: no operation is appending to a
\* wallet's log while it holds the signing lock.
C28_SigningReleasedBeforeAppend ==
    \A p \in Procs :
        /\ signing = p => mutex[req[p].id] = p
        /\ (pc[p] = "insert"
            /\ Handler(req[p]) \in {"genesis", "validate", "receive_propagated"})
              => signing # p

\* a query is called and returns in the step
Queried == calls' = calls + 1 /\ pc' = pc

\* C29: queries are read-only: history(id), balance(id) and all_events()
\* change no wallet's log, nor the set of the logs that exist, nor the
\* locks map, and what they read is the log of the wallet as it stood at
\* one instant.
C29_QueriesReadOnly ==
    [][Queried => /\ log' = log
                  /\ stores' = stores
                  /\ locks' = locks]_vars

\* p appends an event in genesis, validate or receive_propagated
SignedAppend(p) ==
    /\ pc[p] = "insert"
    /\ Handler(req[p]) \in {"genesis", "validate", "receive_propagated"}
    /\ pc'[p] # "insert"
    /\ log' # log

\* C30: update_replica_keys replaces the whole ReplicaInfo in one step and
\* never while an operation is under way: every event appended by
\* validate, genesis or receive_propagated carries a signature share and a
\* replicas key set of the same ReplicaInfo, the one in force from the
\* start of the operation, through its verification, to the append.
C30_KeysReplacedBetweenOperations ==
    [][/\ info' # info =>
            /\ info' \in Infos
            /\ \A p \in Procs : Idle(p)
            /\ log' = log /\ pc' = pc
       /\ \A p \in Procs :
            SignedAppend(p) =>
                LET e == log'[req[p].id][Len(log'[req[p].id])]
                IN  /\ log'[req[p].id] = Append(log[req[p].id], e)
                    /\ e.share = info.peer_replicas
                    /\ e.replicas = info.peer_replicas
                    /\ info' = info]_vars

\* validate returned the event it appended, and the keys of the replica
\* were replaced afterwards: the event carries the keys of its own time
C30_KeysReplacedAfterValidate ==
    \E p \in Procs :
        /\ pc[p] = "done" /\ ret[p].kind = "Some"
        /\ Handler(req[p]) = "validate"
        /\ Len(ret[p].events) = 1
        /\ ret[p].events[1].share = ret[p].events[1].replicas
        /\ ret[p].events[1].replicas # info.peer_replicas
        /\ \E i \in 1..Len(log[req[p].id]) : log[req[p].id][i] = ret[p].events[1]

\* the wallet an event belongs to: the sender of a validated or registered
\* transfer, the recipient of a propagated one
Belongs(e, w) ==
    \/ e.type \in {"TransferValidated", "TransferRegistered"} /\ e.debit.sender = w
    \/ e.type = "TransferPropagated" /\ e.debit.to = w

\* the events of slice es, up to its event n, that belong to wallet w
SliceOf(es, n, w) == SelectSeq(SubSeq(es, 1, n), LAMBDA e : Belongs(e, w))

\* s is t with some of its elements left out
RECURSIVE IsSubsequence(_, _)
IsSubsequence(s, t) ==
    IF s = <<>> THEN TRUE
    ELSE IF t = <<>> THEN FALSE
    ELSE IF Head(s) = Head(t) THEN IsSubsequence(Tail(s), Tail(t))
    ELSE IsSubsequence(s, Tail(t))

\* initiate replays a slice all of whose events are of custodied wallets
Replays(p) ==
    /\ Handler(req[p]) = "replay"
    /\ \A i \in 1..Len(req[p].events) :
          \E w \in locks : Belongs(req[p].events[i], w)

\* the number of events of its slice that the replay of p has appended
Replayed(p) ==
    IF pc[p] = "done" /\ ret[p] = OkNone THEN Len(req[p].events)
    ELSE IF pc[p] = "done" THEN 0
    ELSE idx[p] - 1

\* C31: initiate with a slice that is not empty, every event of a custodied
\* wallet, appends each event unchanged to the log of its wallet (the
\* sender of a TransferValidated or TransferRegistered, the recipient of a
\* TransferPropagated), one at a time under the lock of that wallet and in
\* the order of the slice, so that the log of each wallet grows by the
\* events of the slice that belong to it, in their order; it signs nothing
\* (no genesis) and appends no KnownGroupAdded.
C31_InitiateReplaysVerbatim ==
    /\ [](\A p \in Procs :
            Replays(p) =>
                /\ pc[p] # "sign" /\ signing # p
                /\ \A w \in Wallets :
                      IsSubsequence(SliceOf(req[p].events, Replayed(p), w), log[w]))
    /\ [][\A p \in Procs :
            (Replays(p) /\ pc[p] = "insert" /\ pc'[p] # "insert") =>
                LET e == req[p].events[idx[p]]
                    w == CHOOSE v \in Wallets : Belongs(e, v)
                IN  /\ mutex[w] = p
                    /\ \A v \in Wallets \ {w} : mutex[v] # p
                    /\ \/ log' = [log EXCEPT ![w] = Append(@, e)]
                       \/ log' = log /\ ret'[p].kind = "Err"
                    /\ mutex'[w] = NoProc]_vars
    /\ [](\A w \in Wallets : \A i \in 1..Len(log[w]) :
            log[w][i].type # "KnownGroupAdded")

\* initiate returned from a slice of the events of two wallets: the log of
\* each holds its events of the slice and no other
C31_TwoWalletsReplayed ==
    \E p \in Procs :
        /\ Replays(p) /\ pc[p] = "done" /\ ret[p] = OkNone
        /\ Len(req[p].events) = 3
        /\ log["K1"] = SliceOf(req[p].events, 3, "K1") /\ Len(log["K1"]) = 2
        /\ log["A"] = SliceOf(req[p].events, 3, "A") /\ Len(log["A"]) = 1

\* the log of the sender holds the TransferRegistered event of the debit
RegisteredAtSender(d) ==
    \E i \in 1..Len(log[d.sender]) :
        /\ log[d.sender][i].type = "TransferRegistered"
        /\ log[d.sender][i].debit = d

\* the handler h of p appends its event in the step
HandlerAppends(p, h) ==
    /\ pc[p] = "insert" /\ Handler(req[p]) = h
    /\ log'[req[p].id] = Append(log[req[p].id], EventOf(req[p], idx[p]))

\* C32: per-wallet event order: register appends the TransferRegistered
\* event of a transfer only after a TransferValidated event of the same
\* debit is in the sender's log (never for a debit this replica has not
\* validated), and receive_propagated appends the TransferPropagated event
\* to the recipient's log only after the transfer was registered at the
\* sender.
C32_ValidateRegisterPropagateOrder ==
    [][\A p \in Procs :
        /\ HandlerAppends(p, "register") => ValidatedHere(p)
        /\ HandlerAppends(p, "receive_propagated") =>
              RegisteredAtSender(req[p].arg.debit)]_vars

\* the locks map is empty and stays so, and no event is in any log
LocksStayEmpty ==
    /\ [](locks = {})
    /\ [](\A w \in Wallets : log[w] = <<>>)
    /\ [](\A p \in Procs : pc[p] \in {"idle", "next", "done"})
    /\ [](signing = NoProc /\ \A w \in Wallets : mutex[w] = NoProc)

\* the call of p met an event of the reserved kind before any other
ReservedFirst(p) ==
    /\ Handler(req[p]) = "replay"
    /\ req[p].events[1].type = "KnownGroupAdded"

\* C33 as stated: no operation of Replicas adds a key to the locks map or
\* removes one: it is empty after new and stays empty, so every mutating
\* operation fails at load_key_lock and no event is ever appended.
C33_EveryMutationFailsAtLoadKeyLock ==
    /\ LocksStayEmpty
    /\ [](\A p \in Procs : pc[p] = "done" => ret[p] = Err("Logic", None))

\* C33: no operation of Replicas adds a key to the locks map or removes
\* one: it is empty after new and stays empty, so every mutating operation
\* fails at load_key_lock, but for an initiate whose slice begins with a
\* KnownGroupAdded event, which panics before it asks for a lock; no event
\* is ever appended to any log.
C33_NoMutationPastLoadKeyLock ==
    /\ LocksStayEmpty
    /\ [](\A p \in Procs :
            pc[p] = "done" =>
                IF ReservedFirst(p) THEN ret[p] = Panic
                ELSE ret[p] = Err("Logic", None))

\* a genesis and a validate have both failed for want of a lock, after the
\* keys of the replica were replaced and a query was made
C33_AllCallsFailed ==
    /\ calls = MaxCalls
    /\ \E p, q \in Procs :
        /\ p # q
        /\ pc[p] = "done" /\ Handler(req[p]) = "genesis" /\ ret[p] = Err("Logic", None)
        /\ pc[q] = "done" /\ Handler(req[q]) = "validate" /\ ret[q] = Err("Logic", None)
    /\ stores # {} /\ locks = {}

\* the put of request would be forwarded under a message id not yet cached:
\* an account-creation put of a client with no account, or another put of a
\* client whose account has room and a data_stored that can take the payment
Payable(request) ==
    IF AccountCreation(request)
    THEN client_name(request.src) \notin DOMAIN accounts
    ELSE CanPay(request) /\ Chargeable(request)

\* the account of client can give one payment back
Refundable(client) ==
    /\ client \in DOMAIN accounts
    /\ MoneyLeq(U64(DEFAULT_PAYMENT), accounts[client].data_stored)
    /\ CheckedAdd(accounts[client].space_available, U64(DEFAULT_PAYMENT)) # NoMoney

\* C34: a put whose message id already has a cached request does not fail
\* for that: the account is charged again, the put is forwarded again, and
\* the cache keeps one entry for the id, holding the newer request; a
\* put_failure for the id then refunds one payment, to the client of the
\* cached (newer) request, and answers no request but that one.
C34_PutUnderCachedId ==
    [][/\ \A request \in PutRequests :
            (/\ PutHandled(request) /\ request.id \in DOMAIN request_cache
             /\ Payable(request)) =>
                LET client == client_name(request.src)
                    before == IF client \in DOMAIN accounts THEN accounts[client]
                              ELSE AccountDefault
                IN  /\ handled'.result = "Ok"
                    /\ accounts' = MapInsert(accounts, client,
                          Account(MoneyPlus(before.data_stored, U64(DEFAULT_PAYMENT)),
                                  CheckedSub(before.space_available, U64(DEFAULT_PAYMENT))))
                    /\ routing' = Append(routing,
                          Message("PutRequest", request.dst, NaeManager(request.data.name),
                                  request.id, NoRequestMessage, request.data, <<>>))
                    /\ DOMAIN request_cache' = DOMAIN request_cache
                    /\ request_cache' = MapInsert(request_cache, request.id, request)
       /\ \A id \in DOMAIN request_cache :
            (/\ ReplyHandled("handle_put_failure", id)
             /\ Refundable(client_name(request_cache[id].src))) =>
                LET request == request_cache[id]
                    client == client_name(request.src)
                IN  /\ accounts' = MapInsert(accounts, client,
                          Account(CheckedSub(accounts[client].data_stored, U64(DEFAULT_PAYMENT)),
                                  MoneyPlus(accounts[client].space_available, U64(DEFAULT_PAYMENT))))
                    /\ request_cache' = MapRemove(request_cache, id)
                    /\ Len(Sent) <= 1
                    /\ \A i \in 1..Len(Sent) :
                          /\ Sent[i].type = "PutFailure" /\ Sent[i].request = request
                          /\ Sent[i].dst = request.src /\ Sent[i].id = id]_vars

\* a client opened its account with a put and put under the same message id
\* again; the put failure that came for the id was answered to the second
\* request and gave back one of the two payments
C34_SecondPutAnswered ==
    /\ ops = 3 /\ handled.op = "handle_put_failure" /\ handled.result = "Ok"
    /\ Len(routing) = 3
    /\ routing[1].type = "PutRequest" /\ routing[2].type = "PutRequest"
    /\ routing[1].id = routing[2].id /\ routing[1].data # routing[2].data
    /\ routing[3].type = "PutFailure" /\ routing[3].id = routing[1].id
    /\ routing[3].request.data = routing[2].data
    /\ DOMAIN request_cache = {}
    /\ \E c \in Clients : accounts = [d \in {c} |-> ChargedOnce]

\* a call of handle_put, handle_put_success or handle_put_failure returns an
\* error in the step
ReturnsInternalError ==
    /\ ops' = ops + 1
    /\ handled'.op \in {"handle_put", "handle_put_success", "handle_put_failure"}
    /\ handled'.result \in {"NoSuchAccount", "LowBalance", "AccountExists",
                            "FailedToFindCachedRequest", "Serialisation"}

\* C35: failures of the account manager leave no partial state: whenever
\* handle_put, handle_put_success or handle_put_failure returns an error,
\* the accounts and the request cache are as they were before the call.
C35_ErrorLeavesManagerUntouched ==
    [][ReturnsInternalError =>
        /\ accounts' = accounts
        /\ request_cache' = request_cache]_vars

\* the wallet locks p holds
Held(p) == {w \in Wallets : mutex[w] = p}

\* C36: deadlock freedom: the signing lock is taken only by an operation
\* that holds its wallet's lock, no operation holds two wallet locks, and
\* an operation that holds the signing lock waits for no lock; so under a
\* fair scheduler every call of genesis, initiate, validate, register and
\* receive_propagated returns and every lock is released.
C36_EveryCallReturns ==
    /\ [](\A p \in Procs :
            /\ Cardinality(Held(p)) <= 1
            /\ signing = p => (Held(p) = {req[p].id} /\ pc[p] = "insert")
            /\ pc[p] \in {"idle", "next", "lock", "done"} => Held(p) = {})
    /\ \A p \in Procs : (pc[p] \in {"next", "lock", "sign", "insert"}) ~> (pc[p] = "done")
    /\ \A w \in Wallets : (mutex[w] # NoProc) ~> (mutex[w] = NoProc)
    /\ (signing # NoProc) ~> (signing = NoProc)

\* a call waits for the signing lock, held by a call at another wallet that
\* is appending
C36_WaitingForSigning ==
    \E p, q \in Procs :
        /\ pc[p] = "sign" /\ signing = q /\ pc[q] = "insert"
        /\ req[p].id # req[q].id
        /\ Held(p) = {req[p].id} /\ Held(q) = {req[q].id}

\* the message that answers request under id: a put success or a put failure
\* from the request's destination to the client that sent it
Answers(m, type, request, id) ==
    /\ m.type = type /\ m.id = id
    /\ m.src = request.dst /\ m.dst = request.src

\* C37: response correlation: every call of handle_put_success or
\* handle_put_failure that finds a cached request for its message id sends
\* exactly one response to the client of that request, also when churn has
\* dropped the client's account since the put, and takes the request out of
\* the cache, so that it is answered at most once.
C37_CachedRequestAnsweredOnce ==
    [][\A id \in DOMAIN request_cache :
        /\ ReplyHandled("handle_put_success", id) =>
              /\ Len(Sent) = 1
              /\ Answers(Sent[1], "PutSuccess", request_cache[id], id)
              /\ id \notin DOMAIN request_cache'
        /\ ReplyHandled("handle_put_failure", id) =>
              /\ Len(Sent) = 1
              /\ Answers(Sent[1], "PutFailure", request_cache[id], id)
              /\ id \notin DOMAIN request_cache']_vars

\* the sum of the sizes the recorded entries were put with
RECURSIVE SumOfSizes(_, _)
SumOfSizes(sizes, entries) ==
    IF entries = {} THEN Zero
    ELSE LET e == CHOOSE x \in entries : TRUE
         IN  MoneyPlus(sizes[e], SumOfSizes(sizes, entries \ {e}))

\* the call `mail` now holds was a put of an entry not recorded before it,
\* with a size the mailbox had room for
PutOfNewEntry ==
    /\ mail'.answer.op = "put"
    /\ mail'.answer.entry \notin DOMAIN mail.box.mail_box
    /\ MoneyLeq(mail'.answer.size, mail.box.space_available)

\* the call `mail` now holds was a remove of a recorded entry
RemoveOfRecorded ==
    /\ mail'.answer.op = "remove"
    /\ mail'.answer.entry \in DOMAIN mail.box.mail_box

\* C38: MailBox::put of an entry not yet recorded, with size <= space_available,
\* returns true, records the entry and moves size from space_available to
\* used_space; MailBox::remove of a recorded entry moves its size back exactly
\* once; so after any puts and removes used_space is the sum of the sizes of
\* the recorded entries, used_space + space_available = allowance, and no
\* subtraction underflows.
C38_MailBoxAccounting ==
    /\ [][ /\ (ops' = ops + 1 /\ PutOfNewEntry) =>
                /\ mail'.answer.result = "true"
                /\ mail'.answer.entry \in DOMAIN mail'.box.mail_box
                /\ mail'.box.used_space
                       = MoneyPlus(mail.box.used_space, mail'.answer.size)
                /\ MoneyPlus(mail'.box.space_available, mail'.answer.size)
                       = mail.box.space_available
           /\ (ops' = ops + 1 /\ RemoveOfRecorded) =>
                /\ mail'.answer.result = "true"
                /\ mail'.answer.entry \notin DOMAIN mail'.box.mail_box
                /\ MoneyPlus(mail'.box.used_space, mail'.answer.size)
                       = mail.box.used_space
                /\ mail'.box.space_available
                       = MoneyPlus(mail.box.space_available, mail'.answer.size)
         ]_vars
    /\ [](/\ mail.answer.result # "Panic"
          /\ mail.box.used_space
                 = SumOfSizes(mail.sizes, DOMAIN mail.box.mail_box)
          /\ MoneyPlus(mail.box.used_space, mail.box.space_available)
                 = mail.box.allowance)

\* under Spec nothing is ever waiting for a wallet lock
NoLockTaken == \A p \in Procs : pc[p] \in {"idle", "next", "done"}

=============================================================================
